---------------------------- MODULE Spec2Model ----------------------------
(***************************************************************************)
(* A model of bot.py: the aiogram dispatcher (first registered handler     *)
(* whose filters match wins), the per-user FSM context (state + data) held *)
(* in MemoryStorage, the sqlite tables expenses / income / budgets / goals *)
(* and the process-wide EXCHANGE_RATES dictionary.                         *)
(*                                                                         *)
(* Conventions.                                                            *)
(*  - A message text is a sequence of tokens.  A token is one character    *)
(*    ("1", ",", " ", "-", ".") or an atomic run of letters / one emoji    *)
(*    that holds no space, comma, dot, sign or digit.  str.replace(",",    *)
(*    ".") and str.replace(" ", "") act on single-character tokens only,   *)
(*    so they act on such a sequence exactly as on the Python string.      *)
(*    Cyrillic labels are transliterated and emoji are written as          *)
(*    "(name)"; the original strings are given next to each definition.    *)
(*  - Money is an integer number of hundredths (kopecks, cents); a rate    *)
(*    is an integer number of hundredths of a rouble per unit.             *)
(*  - A calendar date is a day number.                                     *)
(***************************************************************************)
EXTENDS Integers, Sequences, FiniteSets, TLC

(***************************************************************************)
(* Bounds of the model.                                                    *)
(***************************************************************************)
\* Telegram users (FSM keys) 1..NumUsers
NumUsers == 2
\* Wizard starts (start triggers and edit button presses) per run
MaxStarts == 2
\* Rate refresh attempts per run
MaxFetches == 1
\* Rows ever inserted in one table (AUTOINCREMENT ids 1..MaxRows)
MaxRows == 2

Users == 1..NumUsers
Ids == 1..MaxRows

(***************************************************************************)
(* Message texts.                                                          *)
(***************************************************************************)
\* "❌ Отмена"
T_CANCEL == <<"(x)", " ", "Otmena">>
\* "➕ Расход"
T_ADD_EXPENSE == <<"(+)", " ", "Rashod">>
\* "💵 Доход"
T_ADD_INCOME == <<"(dollar)", " ", "Dohod">>
\* "🎯 Бюджеты"
T_BUDGETS == <<"(target)", " ", "Byudzhety">>
\* "🔄 Конвертер"
T_CONVERTER == <<"(cycle)", " ", "Konverter">>
\* "/setbudget", "/creategoal", "/convert"
T_CMD_SETBUDGET == <<"/setbudget">>
T_CMD_CREATEGOAL == <<"/creategoal">>
T_CMD_CONVERT == <<"/convert">>
\* "1 250,50", "300", "0", "-300"
T_1250_50 == <<"1", " ", "2", "5", "0", ",", "5", "0">>
T_300 == <<"3", "0", "0">>
T_ZERO == <<"0">>
T_MINUS_300 == <<"-", "3", "0", "0">>
\* a goal name, "Отпуск"
T_NAME == <<"Otpusk">>
\* "/start", "/rates", "💱 Курсы", "/balance", "💰 Баланс", "/goals", "⭐ Цели"
T_CMD_START == <<"/start">>
T_CMD_RATES == <<"/rates">>
T_RATES == <<"(exchange)", " ", "Kursy">>
T_CMD_BALANCE == <<"/balance">>
T_BALANCE == <<"(moneybag)", " ", "Balans">>
T_CMD_GOALS == <<"/goals">>
T_GOALS == <<"(star)", " ", "Celi">>
\* "📊 Статистика", "◀️ Назад", "📊 Сегодня", "📅 Неделя", "📆 Месяц"
T_STATS == <<"(bars)", " ", "Statistika">>
T_BACK == <<"(back)", " ", "Nazad">>
T_TODAY == <<"(bars)", " ", "Segodnya">>
T_WEEK == <<"(calendar)", " ", "Nedelya">>
T_MONTH == <<"(tearoff)", " ", "Mesyac">>
\* "/history", "📝 История", "📝 Расходы", "📝 Доходы"
T_CMD_HISTORY == <<"/history">>
T_HISTORY == <<"(memo)", " ", "Istoriya">>
T_HISTORY_EXPENSES == <<"(memo)", " ", "Rashody">>
T_HISTORY_INCOME == <<"(memo)", " ", "Dohody">>

(***************************************************************************)
(* EXPENSE_CATEGORIES and INCOME_CATEGORIES (bot.py 32-41): emoji -> name, *)
(* as sets of <<emoji, name>> pairs.                                       *)
(***************************************************************************)
EXPENSE_CATEGORIES ==
    { <<"(plate)", "Restorany i kafe">>, <<"(cart)", "Produkty">>,
      <<"(taxi)", "Taksi">>, <<"(party)", "Razvlecheniya">>,
      <<"(phone)", "Podpiski">>, <<"(bags)", "Pokupki">>,
      <<"(car)", "Avtomobil">>, <<"(house)", "Kommunalnye">>,
      <<"(pill)", "Zdorovye">>, <<"(moneybag)", "Drugoe">> }

INCOME_CATEGORIES ==
    { <<"(briefcase)", "Zarplata">>, <<"(palette)", "Frilans">>,
      <<"(wings)", "Kripta">>, <<"(house)", "Arenda/Garazh">>,
      <<"(gift)", "Vozvrat dolga">>, <<"(chart)", "Investicii">>,
      <<"(moneybag)", "Drugoe">> }

\* f"{emoji} {name}": a label with a space inside is several tokens
Words(name) ==
    CASE name = "Restorany i kafe" -> <<"Restorany", " ", "i", " ", "kafe">>
      [] name = "Vozvrat dolga" -> <<"Vozvrat", " ", "dolga">>
      [] OTHER -> <<name>>

CategoryText(p) == <<p[1], " ">> \o Words(p[2])

\* valid_categories = [f"{emoji} {name}" for emoji, name in ....items()]
ValidExpenseCategories == { CategoryText(p) : p \in EXPENSE_CATEGORIES }
ValidIncomeCategories == { CategoryText(p) : p \in INCOME_CATEGORIES }

\* "🛒 Продукты", "🚕 Такси", "💼 Зарплата", "💰 Другое" (in both enumerations)
T_PRODUKTY == <<"(cart)", " ", "Produkty">>
T_TAKSI == <<"(taxi)", " ", "Taksi">>
T_ZARPLATA == <<"(briefcase)", " ", "Zarplata">>
T_DRUGOE == <<"(moneybag)", " ", "Drugoe">>

(***************************************************************************)
(* float(message.text.replace(",", ".").replace(" ", ""))                   *)
(***************************************************************************)
Replace(text, old, new) ==
    [i \in 1..Len(text) |-> IF text[i] = old THEN new ELSE text[i]]

Remove(text, old) == SelectSeq(text, LAMBDA c : c # old)

Digits == {"0", "1", "2", "3", "4", "5", "6", "7", "8", "9"}

DigitValue(c) ==
    CASE c = "0" -> 0 [] c = "1" -> 1 [] c = "2" -> 2 [] c = "3" -> 3
      [] c = "4" -> 4 [] c = "5" -> 5 [] c = "6" -> 6 [] c = "7" -> 7
      [] c = "8" -> 8 [] c = "9" -> 9

RECURSIVE DigitsValue(_)
DigitsValue(s) ==
    IF s = <<>> THEN 0
    ELSE 10 * DigitsValue(SubSeq(s, 1, Len(s) - 1)) + DigitValue(s[Len(s)])

\* the sign-less part of a decimal literal: digits, at most one ".", at least
\* one digit
IsUnsignedDecimal(s) ==
    /\ \A i \in 1..Len(s) : s[i] \in Digits \cup {"."}
    /\ Cardinality({i \in 1..Len(s) : s[i] = "."}) <= 1
    /\ \E i \in 1..Len(s) : s[i] \in Digits

HasSign(s) == Len(s) >= 1 /\ s[1] \in {"+", "-"}
Unsigned(s) == IF HasSign(s) THEN Tail(s) ELSE s

\* float() raises ValueError on everything that is not a number literal.  The
\* literals modelled are the plain decimal ones; "nan", "inf", exponents and
\* digit-group underscores are outside the modelled texts.
FloatRaises(s) == ~IsUnsignedDecimal(Unsigned(s))

DotAt(s) ==
    IF \E i \in 1..Len(s) : s[i] = "."
    THEN CHOOSE i \in 1..Len(s) : s[i] = "."
    ELSE Len(s) + 1

\* the value in hundredths; the modelled texts carry at most two decimals
UnsignedHundredths(s) ==
    LET d == DotAt(s)
        whole == SubSeq(s, 1, d - 1)
        frac == SubSeq(s, d + 1, Len(s))
        frac2 == SubSeq(frac \o <<"0", "0">>, 1, 2)
    IN  100 * DigitsValue(whole) + DigitsValue(frac2)

Float(s) ==
    IF HasSign(s) /\ s[1] = "-"
    THEN 0 - UnsignedHundredths(Unsigned(s))
    ELSE UnsignedHundredths(Unsigned(s))

\* a faulty variant: the comma dropped as a digit-group separator
NormalizeAmountText_comma_dropped(text) == Remove(Remove(text, ","), " ")

NormalizeAmountText(text) == Remove(Replace(text, ",", "."), " ")

\* the try-block head shared by all amount steps:
\*     amount = float(message.text.replace(",", ".").replace(" ", ""))
\*     if amount <= 0: raise ValueError
\* AmountRaises: control reaches "except ValueError"; Amount: the amount if not
Amount(text) == Float(NormalizeAmountText(text))

\* a faulty variant: the "if amount <= 0: raise ValueError" line left out
AmountRaises_on_text_only(text) == FloatRaises(NormalizeAmountText(text))

AmountRaises(text) ==
    LET s == NormalizeAmountText(text)
    IN  IF FloatRaises(s) THEN TRUE ELSE Float(s) <= 0

(***************************************************************************)
(* round(amount_rub / EXCHANGE_RATES["USD"], 2) in hundredths: the nearest *)
(* hundredth of the quotient, an exact tie going to the even one.  (On     *)
(* binary floats an exact tie is decided by the representation error; the  *)
(* amounts and rates of this model produce no tie.)                        *)
(***************************************************************************)
RoundDiv(amount, rate) ==
    LET n == amount * 100
        q == n \div rate
        r2 == 2 * (n % rate)
    IN  IF r2 > rate \/ (r2 = rate /\ q % 2 = 1) THEN q + 1 ELSE q

(***************************************************************************)
(* Python floats in convert_currency.  A float is << m, e >>, the number   *)
(* m * 2^e with m of exactly MantissaBits bits, or << 0, 0 >>.  A product  *)
(* or a quotient of floats, and float(text), is the exact result rounded   *)
(* to the nearest float, a tie going to the even mantissa.  CPython's      *)
(* floats have 53 bits; the width is a bound of this model.                *)
(***************************************************************************)
MantissaBits == 10

RECURSIVE Pow2(_)
Pow2(n) == IF n = 0 THEN 1 ELSE 2 * Pow2(n - 1)

RECURSIVE BitLength(_)
BitLength(n) == IF n = 0 THEN 0 ELSE 1 + BitLength(n \div 2)

\* the float nearest to n * 2^e, n a natural number
Nearest(n, e) ==
    IF n = 0 THEN << 0, 0 >>
    ELSE LET k == BitLength(n) - MantissaBits
         IN  IF k <= 0 THEN << n * Pow2(-k), e + k >>
             ELSE LET q == n \div Pow2(k)
                      r == n % Pow2(k)
                      half == Pow2(k - 1)
                      q1 == IF r > half \/ (r = half /\ q % 2 = 1)
                            THEN q + 1 ELSE q
                  IN  IF q1 = Pow2(MantissaBits)
                      THEN << Pow2(MantissaBits - 1), e + k + 1 >>
                      ELSE << q1, e + k >>

\* the float nearest to (n / d) * 2^e, n and d natural numbers, d > 0: the
\* quotient is taken with two bits more than a mantissa and a sticky bit
NearestRatio(n, d, e) ==
    LET need == MantissaBits + 2 + BitLength(d) - BitLength(n)
        k == IF need > 0 THEN need ELSE 0
        q == (n * Pow2(k)) \div d
        sticky == IF (n * Pow2(k)) % d = 0 THEN 0 ELSE 1
    IN  Nearest(2 * q + sticky, e - k - 1)

FloatMul(a, b) == Nearest(a[1] * b[1], a[2] + b[2])
FloatDiv(a, b) == NearestRatio(a[1], b[1], a[2] - b[2])

\* the float of an amount or a rate given in hundredths
FloatOfHundredths(h) == NearestRatio(h, 100, 0)

(***************************************************************************)
(* The state.                                                              *)
(***************************************************************************)
VARIABLES
    \* MemoryStorage, per user: the FSM state and the FSM data dictionary
    state, data,
    \* expenses.db: the rows of the four tables and sqlite_sequence
    expenses, income, budgets, goals, seq,
    \* the module-level dictionary EXCHANGE_RATES
    EXCHANGE_RATES,
    \* datetime.now().date()
    today,
    \* the clock second within that date, as CURRENT_TIMESTAMP reads it
    now,
    \* the last reply recorded: to whom, by which handler, of which kind
    \* (for a database function or fetch_exchange_rates: the value returned)
    last,
    \* the USD rate in force at the last write of each row (history)
    expenseRate, incomeRate,
    \* counters that bound a run
    nStarts, nFetches

vars == <<state, data, expenses, income, budgets, goals, seq, EXCHANGE_RATES,
          today, now, last, expenseRate, incomeRate, nStarts, nFetches>>

db == <<expenses, income, budgets, goals, seq, expenseRate, incomeRate>>
env == <<EXCHANGE_RATES, today, now, nFetches>>

\* StatesGroup members (bot.py 47-75), named as aiogram names them
None == "None"
AddExpense_waiting_for_amount == "AddExpense:waiting_for_amount"
AddExpense_waiting_for_category == "AddExpense:waiting_for_category"
AddIncome_waiting_for_amount == "AddIncome:waiting_for_amount"
AddIncome_waiting_for_category == "AddIncome:waiting_for_category"
Convert_waiting_for_amount == "Convert:waiting_for_amount"
Convert_waiting_for_from_currency == "Convert:waiting_for_from_currency"
Convert_waiting_for_to_currency == "Convert:waiting_for_to_currency"
SetBudget_waiting_for_category == "SetBudget:waiting_for_category"
SetBudget_waiting_for_amount == "SetBudget:waiting_for_amount"
CreateGoal_waiting_for_name == "CreateGoal:waiting_for_name"
CreateGoal_waiting_for_amount == "CreateGoal:waiting_for_amount"
CreateGoal_waiting_for_deadline == "CreateGoal:waiting_for_deadline"
EditExpense_waiting_for_new_amount == "EditExpense:waiting_for_new_amount"
EditExpense_waiting_for_new_category == "EditExpense:waiting_for_new_category"
EditIncome_waiting_for_new_amount == "EditIncome:waiting_for_new_amount"
EditIncome_waiting_for_new_category == "EditIncome:waiting_for_new_category"

\* FSMContext: update_data merges one key into the dictionary, set_state
\* leaves the dictionary alone, clear drops the state and the dictionary
NoData == [k \in {} |-> 0]
UpdateData(d, k, v) ==
    [x \in (DOMAIN d) \cup {k} |-> IF x = k THEN v ELSE d[x]]

\* EXCHANGE_RATES = {"USD": 77.52, "BYN": 26.73, "last_update": None}
USD_FALLBACK == 7752
BYN_FALLBACK == 2673

\* month and year of a day number, on a calendar of DaysPerMonth-day months
DaysPerMonth == 2
MonthOf(day) == ((day \div DaysPerMonth) % 12) + 1
YearOf(day) == day \div (DaysPerMonth * 12)

(***************************************************************************)
(* DATABASE (bot.py 186-414).  Each function is the value it returns       *)
(* together with the table it leaves behind.                               *)
(***************************************************************************)
add_expense_to_db(user_id, amount_rub, category) ==
    LET amount_usd == RoundDiv(amount_rub, EXCHANGE_RATES.USD)
        id == seq.expenses + 1
    IN  [ amount_usd |-> amount_usd,
          id |-> id,
          rows |-> expenses \cup
                   { [ id |-> id, user_id |-> user_id, date |-> today,
                       amount_rub |-> amount_rub, amount_usd |-> amount_usd,
                       category |-> category,
                       created_at |-> <<today, now>> ] } ]

add_income_to_db(user_id, amount_rub, category) ==
    LET amount_usd == RoundDiv(amount_rub, EXCHANGE_RATES.USD)
        id == seq.income + 1
    IN  [ amount_usd |-> amount_usd,
          id |-> id,
          rows |-> income \cup
                   { [ id |-> id, user_id |-> user_id, date |-> today,
                       amount_rub |-> amount_rub, amount_usd |-> amount_usd,
                       category |-> category,
                       created_at |-> <<today, now>> ] } ]

\* a faulty variant: a plain INSERT on a table without the UNIQUE constraint
set_budget_plain_insert(user_id, category, limit_rub) ==
    LET id == seq.budgets + 1
    IN  [ id |-> id,
          rows |-> budgets \cup
                   { [ id |-> id, user_id |-> user_id, category |-> category,
                       limit_rub |-> limit_rub, month |-> MonthOf(today),
                       year |-> YearOf(today) ] } ]

\* INSERT OR REPLACE: the row with the same (user_id, category, month, year)
\* is deleted, the new row is inserted under a fresh id
set_budget(user_id, category, limit_rub) ==
    LET id == seq.budgets + 1
        clash(b) == /\ b.user_id = user_id /\ b.category = category
                    /\ b.month = MonthOf(today) /\ b.year = YearOf(today)
    IN  [ id |-> id,
          rows |-> { b \in budgets : ~clash(b) } \cup
                   { [ id |-> id, user_id |-> user_id, category |-> category,
                       limit_rub |-> limit_rub, month |-> MonthOf(today),
                       year |-> YearOf(today) ] } ]

create_goal(user_id, name, target_rub, deadline) ==
    LET id == seq.goals + 1
    IN  [ id |-> id,
          rows |-> goals \cup
                   { [ id |-> id, user_id |-> user_id, name |-> name,
                       target_amount_rub |-> target_rub,
                       deadline |-> deadline,
                       created_at |-> <<today, now>> ] } ]

Sum(rows, field) ==
    LET RECURSIVE S(_)
        S(rs) == IF rs = {} THEN 0
                 ELSE LET r == CHOOSE x \in rs : TRUE
                      IN  r[field] + S(rs \ {r})
    IN  S(rows)

\* a faulty variant: start_date = today - days (a window one day too long)
get_total_expenses_rolling(user_id, days) ==
    LET start_date == today - days
        sel == { r \in expenses : r.user_id = user_id /\ r.date >= start_date }
    IN  << Sum(sel, "amount_rub"), Sum(sel, "amount_usd") >>

\* SELECT SUM(amount_rub), SUM(amount_usd) ... WHERE user_id = ? AND date >= ?
\* and (result[0] or 0, result[1] or 0)
get_total_expenses(user_id, days) ==
    LET start_date == today - (days - 1)
        sel == { r \in expenses : r.user_id = user_id /\ r.date >= start_date }
    IN  << Sum(sel, "amount_rub"), Sum(sel, "amount_usd") >>

get_total_income(user_id, days) ==
    LET start_date == today - (days - 1)
        sel == { r \in income : r.user_id = user_id /\ r.date >= start_date }
    IN  << Sum(sel, "amount_rub"), Sum(sel, "amount_usd") >>

\* a faulty variant: the expense sums are taken over today's rows only
get_balance_windowed(user_id) ==
    LET inc == { r \in income : r.user_id = user_id }
        exp == { r \in expenses : r.user_id = user_id /\ r.date >= today }
        income_rub == Sum(inc, "amount_rub")
        income_usd == Sum(inc, "amount_usd")
        expense_rub == Sum(exp, "amount_rub")
        expense_usd == Sum(exp, "amount_usd")
    IN  << income_rub - expense_rub, income_usd - expense_usd,
           income_rub, income_usd, expense_rub, expense_usd >>

\* SELECT SUM(amount_rub), SUM(amount_usd) FROM income WHERE user_id = ?,
\* the same FROM expenses, each "or 0"; the tuple (balance_rub, balance_usd,
\* income_rub, income_usd, expense_rub, expense_usd)
get_balance(user_id) ==
    LET inc == { r \in income : r.user_id = user_id }
        exp == { r \in expenses : r.user_id = user_id }
        income_rub == Sum(inc, "amount_rub")
        income_usd == Sum(inc, "amount_usd")
        expense_rub == Sum(exp, "amount_rub")
        expense_usd == Sum(exp, "amount_usd")
    IN  << income_rub - expense_rub, income_usd - expense_usd,
           income_rub, income_usd, expense_rub, expense_usd >>

\* a faulty variant: the month and the year are not part of the selection
get_budget_any_month(user_id, category) ==
    LET sel == { b \in budgets : /\ b.user_id = user_id
                                 /\ b.category = category }
    IN  IF sel = {} THEN << >>
        ELSE << (CHOOSE b \in sel : \A c \in sel : b.id <= c.id).limit_rub >>

\* SELECT limit_rub FROM budgets WHERE user_id = ? AND category = ? AND
\* month = ? AND year = ?; fetchone: the first row of the selection, in rowid
\* order.  The Optional[float] returned is << >> for None, << limit >> else.
get_budget(user_id, category) ==
    LET sel == { b \in budgets : /\ b.user_id = user_id
                                 /\ b.category = category
                                 /\ b.month = MonthOf(today)
                                 /\ b.year = YearOf(today) }
    IN  IF sel = {} THEN << >>
        ELSE << (CHOOSE b \in sel : \A c \in sel : b.id <= c.id).limit_rub >>

\* now.replace(day=1).date()
FirstDayOfMonth(day) == day - (day % DaysPerMonth)

\* a faulty variant: the sum is taken over every category of the owner
check_budget_exceeded_all_categories(user_id, category) ==
    LET budget == get_budget(user_id, category)
        sel == { r \in expenses : /\ r.user_id = user_id
                                  /\ r.date >= FirstDayOfMonth(today) }
        spent == Sum(sel, "amount_rub")
    IN  IF budget = << >> \/ budget = << 0 >> THEN << FALSE, 0, 0 >>
        ELSE << IF budget[1] > 0 THEN spent * 100 >= 80 * budget[1]
                                 ELSE 0 >= 80,
                spent, budget[1] >>

\* "if not budget: return (False, 0, 0)" (None, and a stored limit of 0);
\* SELECT SUM(amount_rub) FROM expenses WHERE user_id = ? AND category = ?
\* AND date >= first_day; percentage = (spent / budget) * 100 if budget > 0
\* else 0; (percentage >= 80, spent, budget).  With budget > 0 the test
\* (spent / budget) * 100 >= 80 is spent * 100 >= 80 * budget.
check_budget_exceeded(user_id, category) ==
    LET budget == get_budget(user_id, category)
        sel == { r \in expenses : /\ r.user_id = user_id
                                  /\ r.category = category
                                  /\ r.date >= FirstDayOfMonth(today) }
        spent == Sum(sel, "amount_rub")
    IN  IF budget = << >> \/ budget = << 0 >> THEN << FALSE, 0, 0 >>
        ELSE << IF budget[1] > 0 THEN spent * 100 >= 80 * budget[1]
                                 ELSE 0 >= 80,
                spent, budget[1] >>

\* a faulty variant: DELETE FROM expenses WHERE id = ?
delete_expense_any_owner(expense_id, user_id) ==
    LET hit == { r \in expenses : r.id = expense_id }
    IN  [ deleted |-> Cardinality(hit) > 0, rows |-> expenses \ hit ]

\* DELETE FROM expenses WHERE id = ? AND user_id = ?; deleted = rowcount > 0
delete_expense(expense_id, user_id) ==
    LET hit == { r \in expenses : r.id = expense_id /\ r.user_id = user_id }
    IN  [ deleted |-> Cardinality(hit) > 0, rows |-> expenses \ hit ]

delete_income(income_id, user_id) ==
    LET hit == { r \in income : r.id = income_id /\ r.user_id = user_id }
    IN  [ deleted |-> Cardinality(hit) > 0, rows |-> income \ hit ]

\* a faulty variant: UPDATE expenses SET ... WHERE id = ?
update_expense_any_owner(expense_id, user_id, amount_rub, category) ==
    LET amount_usd == RoundDiv(amount_rub, EXCHANGE_RATES.USD)
        hit == { r \in expenses : r.id = expense_id }
    IN  [ updated |-> Cardinality(hit) > 0,
          written |-> { r.id : r \in hit },
          rows |-> (expenses \ hit) \cup
                   { [ r EXCEPT !.amount_rub = amount_rub,
                                !.amount_usd = amount_usd,
                                !.category = category ] : r \in hit } ]

\* a faulty variant: UPDATE expenses SET amount_rub = ?, category = ? (the
\* stored amount_usd is left as it was)
update_expense_stale_usd(expense_id, user_id, amount_rub, category) ==
    LET hit == { r \in expenses : r.id = expense_id /\ r.user_id = user_id }
    IN  [ updated |-> Cardinality(hit) > 0,
          written |-> { r.id : r \in hit },
          rows |-> (expenses \ hit) \cup
                   { [ r EXCEPT !.amount_rub = amount_rub,
                                !.category = category ] : r \in hit } ]

\* UPDATE expenses SET amount_rub = ?, amount_usd = ?, category = ?
\* WHERE id = ? AND user_id = ?; updated = rowcount > 0
update_expense(expense_id, user_id, amount_rub, category) ==
    LET amount_usd == RoundDiv(amount_rub, EXCHANGE_RATES.USD)
        hit == { r \in expenses : r.id = expense_id /\ r.user_id = user_id }
    IN  [ updated |-> Cardinality(hit) > 0,
          written |-> { r.id : r \in hit },
          rows |-> (expenses \ hit) \cup
                   { [ r EXCEPT !.amount_rub = amount_rub,
                                !.amount_usd = amount_usd,
                                !.category = category ] : r \in hit } ]

update_income(income_id, user_id, amount_rub, category) ==
    LET amount_usd == RoundDiv(amount_rub, EXCHANGE_RATES.USD)
        hit == { r \in income : r.id = income_id /\ r.user_id = user_id }
    IN  [ updated |-> Cardinality(hit) > 0,
          written |-> { r.id : r \in hit },
          rows |-> (income \ hit) \cup
                   { [ r EXCEPT !.amount_rub = amount_rub,
                                !.amount_usd = amount_usd,
                                !.category = category ] : r \in hit } ]

\* the rate in force at the last write of each row, kept beside the tables:
\* after a statement that leaves the rows `after` and wrote the ids `written`
RateAfterWrite(rates, after, written) ==
    [ id \in { r.id : r \in after } |->
        IF id \in written THEN EXCHANGE_RATES.USD ELSE rates[id] ]

(***************************************************************************)
(* Input events.                                                           *)
(***************************************************************************)
\* the message texts users send
Texts ==
    { T_CANCEL, T_ADD_EXPENSE, T_ADD_INCOME, T_CMD_SETBUDGET, T_CMD_CREATEGOAL,
      T_CONVERTER, T_1250_50, T_ZERO, T_NAME, T_PRODUKTY, T_TAKSI, T_ZARPLATA,
      T_BALANCE, T_MINUS_300 }

\* the texts typed as a goal name (the name step takes any text)
GoalNames == { T_NAME, T_CANCEL }

\* the callback data of the inline buttons users press
Callbacks ==
    { <<"cur", "USD">> }
    \cup { <<k, t, i>> : k \in {"del", "edit"}, t \in {"exp", "inc"}, i \in Ids }

(***************************************************************************)
(* The dispatcher.  dp.message and dp.callback_query each keep their       *)
(* handlers in registration order (the order of the decorators in bot.py)  *)
(* and run the first one whose filters all pass.  A handler registered     *)
(* without a state filter passes in every FSM state.                       *)
(***************************************************************************)
\* Command("x"): the text starts with the token "/x"
Command(text, c) == Len(text) >= 1 /\ text[1] = c[1]

\* a faulty variant: cmd_add_income is registered before the step handlers
\* of add-expense
MessageHandlers_income_first ==
    << "cmd_start", "cmd_rates", "cmd_balance", "cmd_budgets_menu",
       "cmd_set_budget", "cancel_budget", "process_budget_category",
       "process_budget_amount", "cmd_goals", "cmd_create_goal",
       "process_goal_name", "process_goal_amount", "cmd_add_expense",
       "cmd_add_income", "process_expense_amount", "cancel_expense",
       "process_expense_category", "process_income_amount",
       "cancel_income", "process_income_category", "cmd_convert",
       "convert_amount", "cmd_stats_menu", "cmd_back", "cmd_today",
       "cmd_week", "cmd_month", "cmd_history", "cmd_expenses_history",
       "cmd_income_history", "process_edit_expense_amount",
       "cancel_edit_expense", "process_edit_expense_category",
       "process_edit_income_amount", "cancel_edit_income",
       "process_edit_income_category" >>

\* the @dp.message handlers in registration order
MessageHandlers ==
    << "cmd_start", "cmd_rates", "cmd_balance", "cmd_budgets_menu",
       "cmd_set_budget", "cancel_budget", "process_budget_category",
       "process_budget_amount", "cmd_goals", "cmd_create_goal",
       "process_goal_name", "process_goal_amount", "cmd_add_expense",
       "process_expense_amount", "cancel_expense",
       "process_expense_category", "cmd_add_income", "process_income_amount",
       "cancel_income", "process_income_category", "cmd_convert",
       "convert_amount", "cmd_stats_menu", "cmd_back", "cmd_today",
       "cmd_week", "cmd_month", "cmd_history", "cmd_expenses_history",
       "cmd_income_history", "process_edit_expense_amount",
       "cancel_edit_expense", "process_edit_expense_category",
       "process_edit_income_amount", "cancel_edit_income",
       "process_edit_income_category" >>

\* the filters handler h is registered with, on a message text in FSM state st
MessageFilter(h, st, text) ==
    CASE h = "cmd_start" ->
             Command(text, T_CMD_START)
      [] h = "cmd_rates" ->
             Command(text, T_CMD_RATES) \/ text = T_RATES
      [] h = "cmd_balance" ->
             Command(text, T_CMD_BALANCE) \/ text = T_BALANCE
      [] h = "cmd_budgets_menu" ->
             Command(text, T_CMD_SETBUDGET) \/ text = T_BUDGETS
      [] h = "cmd_set_budget" ->
             Command(text, T_CMD_SETBUDGET)
      [] h = "cancel_budget" ->
             st = SetBudget_waiting_for_category /\ text = T_CANCEL
      [] h = "process_budget_category" ->
             st = SetBudget_waiting_for_category
      [] h = "process_budget_amount" ->
             st = SetBudget_waiting_for_amount
      [] h = "cmd_goals" ->
             Command(text, T_CMD_GOALS) \/ text = T_GOALS
      [] h = "cmd_create_goal" ->
             Command(text, T_CMD_CREATEGOAL)
      [] h = "process_goal_name" ->
             st = CreateGoal_waiting_for_name
      [] h = "process_goal_amount" ->
             st = CreateGoal_waiting_for_amount
      [] h = "cmd_add_expense" ->
             text = T_ADD_EXPENSE
      [] h = "process_expense_amount" ->
             st = AddExpense_waiting_for_amount
      [] h = "cancel_expense" ->
             st = AddExpense_waiting_for_category /\ text = T_CANCEL
      [] h = "process_expense_category" ->
             st = AddExpense_waiting_for_category
      [] h = "cmd_add_income" ->
             text = T_ADD_INCOME
      [] h = "process_income_amount" ->
             st = AddIncome_waiting_for_amount
      [] h = "cancel_income" ->
             st = AddIncome_waiting_for_category /\ text = T_CANCEL
      [] h = "process_income_category" ->
             st = AddIncome_waiting_for_category
      [] h = "cmd_convert" ->
             Command(text, T_CMD_CONVERT) \/ text = T_CONVERTER
      [] h = "convert_amount" ->
             st = Convert_waiting_for_amount
      [] h = "cmd_stats_menu" ->
             text = T_STATS
      [] h = "cmd_back" ->
             text = T_BACK
      [] h = "cmd_today" ->
             text = T_TODAY
      [] h = "cmd_week" ->
             text = T_WEEK
      [] h = "cmd_month" ->
             text = T_MONTH
      [] h = "cmd_history" ->
             Command(text, T_CMD_HISTORY) \/ text = T_HISTORY
      [] h = "cmd_expenses_history" ->
             text = T_HISTORY_EXPENSES
      [] h = "cmd_income_history" ->
             text = T_HISTORY_INCOME
      [] h = "process_edit_expense_amount" ->
             st = EditExpense_waiting_for_new_amount
      [] h = "cancel_edit_expense" ->
             st = EditExpense_waiting_for_new_category /\ text = T_CANCEL
      [] h = "process_edit_expense_category" ->
             st = EditExpense_waiting_for_new_category
      [] h = "process_edit_income_amount" ->
             st = EditIncome_waiting_for_new_amount
      [] h = "cancel_edit_income" ->
             st = EditIncome_waiting_for_new_category /\ text = T_CANCEL
      [] h = "process_edit_income_category" ->
             st = EditIncome_waiting_for_new_category

\* the handler that runs: the first registered one whose filters pass
MessageHandler(st, text) ==
    LET RECURSIVE First(_)
        First(i) ==
            IF i > Len(MessageHandlers) THEN "unhandled"
            ELSE IF MessageFilter(MessageHandlers[i], st, text)
                 THEN MessageHandlers[i]
                 ELSE First(i + 1)
    IN  First(1)

\* MessageHandler tabulated over the FSM states and the texts users send
FSMStates ==
    { None, AddExpense_waiting_for_amount, AddExpense_waiting_for_category,
      AddIncome_waiting_for_amount, AddIncome_waiting_for_category,
      Convert_waiting_for_amount, Convert_waiting_for_from_currency,
      Convert_waiting_for_to_currency, SetBudget_waiting_for_category,
      SetBudget_waiting_for_amount, CreateGoal_waiting_for_name,
      CreateGoal_waiting_for_amount, CreateGoal_waiting_for_deadline,
      EditExpense_waiting_for_new_amount, EditExpense_waiting_for_new_category,
      EditIncome_waiting_for_new_amount, EditIncome_waiting_for_new_category }

MessageTable ==
    [st \in FSMStates |-> [text \in Texts |-> MessageHandler(st, text)]]

\* handler h is the one run on this message of user u
RunsOnMessage(h, u, text) == MessageTable[state[u]][text] = h

\* callback.data split at "_": "cur_RUB" is <<"cur", "RUB">>, "del_exp_1" is
\* <<"del", "exp", 1>> (the last part already through int())
StartsWith(cb, a, b) == Len(cb) >= 3 /\ cb[1] = a /\ cb[2] = b

\* the @dp.callback_query handlers in registration order
CallbackHandlers ==
    << "convert_from_currency", "convert_to_currency",
       "delete_expense_callback", "delete_income_callback",
       "edit_expense_callback", "edit_income_callback" >>

CallbackFilter(h, st, cb) ==
    CASE h = "convert_from_currency" ->
             st = Convert_waiting_for_from_currency
      [] h = "convert_to_currency" ->
             st = Convert_waiting_for_to_currency
      [] h = "delete_expense_callback" ->
             StartsWith(cb, "del", "exp")
      [] h = "delete_income_callback" ->
             StartsWith(cb, "del", "inc")
      [] h = "edit_expense_callback" ->
             StartsWith(cb, "edit", "exp")
      [] h = "edit_income_callback" ->
             StartsWith(cb, "edit", "inc")

CallbackHandler(st, cb) ==
    LET RECURSIVE First(_)
        First(i) ==
            IF i > Len(CallbackHandlers) THEN "unhandled"
            ELSE IF CallbackFilter(CallbackHandlers[i], st, cb)
                 THEN CallbackHandlers[i]
                 ELSE First(i + 1)
    IN  First(1)

CallbackTable ==
    [st \in FSMStates |-> [cb \in Callbacks |-> CallbackHandler(st, cb)]]

\* handler h is the one run on this button press of user u
RunsOnCallback(h, u, cb) == CallbackTable[state[u]][cb] = h

\* the handlers that take no FSMContext and write to no table
ReadOnlyHandlers ==
    { "cmd_start", "cmd_rates", "cmd_balance", "cmd_goals", "cmd_stats_menu",
      "cmd_back", "cmd_today", "cmd_week", "cmd_month", "cmd_history",
      "cmd_expenses_history", "cmd_income_history" }

Handled(u, h, reply) == last' = [user |-> u, handler |-> h, reply |-> reply]

\* state.clear()
Clear(u) ==
    /\ state' = [state EXCEPT ![u] = None]
    /\ data' = [data EXCEPT ![u] = NoData]

(***************************************************************************)
(* Init: the module is loaded, MemoryStorage() is empty, the tables are    *)
(* those of a new expenses.db, no rate has been fetched.                   *)
(***************************************************************************)
Init ==
    /\ state = [u \in Users |-> None]
    /\ data = [u \in Users |-> NoData]
    /\ expenses = {}
    /\ income = {}
    /\ budgets = {}
    /\ goals = {}
    /\ seq = [expenses |-> 0, income |-> 0, budgets |-> 0, goals |-> 0]
    /\ EXCHANGE_RATES = [USD |-> USD_FALLBACK, BYN |-> BYN_FALLBACK,
                         last_update |-> 0]
    /\ today = 0
    /\ now = 0
    /\ last = [user |-> 0, handler |-> "init", reply |-> "none"]
    /\ expenseRate = [id \in {} |-> 0]
    /\ incomeRate = [id \in {} |-> 0]
    /\ nStarts = 0
    /\ nFetches = 0

(***************************************************************************)
(* Handlers without FSMContext (bot.py 450-517, 573-597, 816-940)          *)
(***************************************************************************)
ReadOnlyQuery(u, text) ==
    /\ MessageTable[state[u]][text] \in ReadOnlyHandlers
    /\ UNCHANGED <<last, state, data, db, env, nStarts>>

\* Command("setbudget") and "🎯 Бюджеты": the list of budgets
cmd_budgets_menu(u, text) ==
    /\ RunsOnMessage("cmd_budgets_menu", u, text)
    /\ Handled(u, "cmd_budgets_menu", "shown")
    /\ UNCHANGED <<state, data, db, env, nStarts>>

\* no handler's filters pass: the update is dropped
UnhandledMessage(u, text) ==
    /\ RunsOnMessage("unhandled", u, text)
    /\ UNCHANGED <<last, state, data, db, env, nStarts>>

(***************************************************************************)
(* BUDGETS (bot.py 519-569)                                                *)
(***************************************************************************)
cmd_set_budget(u, text) ==
    /\ RunsOnMessage("cmd_set_budget", u, text)
    /\ nStarts < MaxStarts
    /\ nStarts' = nStarts + 1
    /\ state' = [state EXCEPT ![u] = SetBudget_waiting_for_category]
    /\ Handled(u, "cmd_set_budget", "prompt")
    /\ UNCHANGED <<data, db, env>>

cancel_budget(u, text) ==
    /\ RunsOnMessage("cancel_budget", u, text)
    /\ Clear(u)
    /\ Handled(u, "cancel_budget", "cancelled")
    /\ UNCHANGED <<db, env, nStarts>>

process_budget_category(u, text) ==
    /\ RunsOnMessage("process_budget_category", u, text)
    /\ IF text \notin ValidExpenseCategories
       THEN /\ Handled(u, "process_budget_category", "invalid")
            /\ UNCHANGED <<state, data>>
       ELSE /\ data' = [data EXCEPT ![u] = UpdateData(@, "category", text)]
            /\ state' = [state EXCEPT ![u] = SetBudget_waiting_for_amount]
            /\ Handled(u, "process_budget_category", "prompt")
    /\ UNCHANGED <<db, env, nStarts>>

process_budget_amount(u, text) ==
    /\ RunsOnMessage("process_budget_amount", u, text)
    /\ IF AmountRaises(text)
       THEN /\ Handled(u, "process_budget_amount", "invalid")
            /\ UNCHANGED <<state, data, db>>
       ELSE LET w == set_budget(u, data[u].category, Amount(text))
            IN  /\ budgets' = w.rows
                /\ seq' = [seq EXCEPT !.budgets = w.id]
                /\ Clear(u)
                /\ Handled(u, "process_budget_amount", "done")
                /\ UNCHANGED <<expenses, income, goals, expenseRate, incomeRate>>
    /\ UNCHANGED <<env, nStarts>>

(***************************************************************************)
(* GOALS (bot.py 599-643)                                                  *)
(***************************************************************************)
cmd_create_goal(u, text) ==
    /\ RunsOnMessage("cmd_create_goal", u, text)
    /\ nStarts < MaxStarts
    /\ nStarts' = nStarts + 1
    /\ state' = [state EXCEPT ![u] = CreateGoal_waiting_for_name]
    /\ Handled(u, "cmd_create_goal", "prompt")
    /\ UNCHANGED <<data, db, env>>

process_goal_name(u, text) ==
    /\ RunsOnMessage("process_goal_name", u, text)
    /\ text \in GoalNames
    /\ data' = [data EXCEPT ![u] = UpdateData(@, "name", text)]
    /\ state' = [state EXCEPT ![u] = CreateGoal_waiting_for_amount]
    /\ Handled(u, "process_goal_name", "prompt")
    /\ UNCHANGED <<db, env, nStarts>>

\* a faulty variant: a valid amount is collected and the deadline is asked
\* for
process_goal_amount_asks_deadline(u, text) ==
    /\ RunsOnMessage("process_goal_amount", u, text)
    /\ IF AmountRaises(text)
       THEN /\ Handled(u, "process_goal_amount", "invalid")
            /\ UNCHANGED <<state, data, db>>
       ELSE /\ data' = [data EXCEPT ![u] = UpdateData(@, "amount", Amount(text))]
            /\ state' = [state EXCEPT ![u] = CreateGoal_waiting_for_deadline]
            /\ Handled(u, "process_goal_amount", "prompt")
            /\ UNCHANGED db
    /\ UNCHANGED <<env, nStarts>>

process_goal_amount(u, text) ==
    /\ RunsOnMessage("process_goal_amount", u, text)
    /\ IF AmountRaises(text)
       THEN /\ Handled(u, "process_goal_amount", "invalid")
            /\ UNCHANGED <<state, data, db>>
       ELSE LET w == create_goal(u, data[u].name, Amount(text), None)
            IN  /\ seq.goals < MaxRows
                /\ goals' = w.rows
                /\ seq' = [seq EXCEPT !.goals = w.id]
                /\ Clear(u)
                /\ Handled(u, "process_goal_amount", "done")
                /\ UNCHANGED <<expenses, income, budgets, expenseRate, incomeRate>>
    /\ UNCHANGED <<env, nStarts>>

(***************************************************************************)
(* EXPENSES (bot.py 647-699)                                               *)
(***************************************************************************)
cmd_add_expense(u, text) ==
    /\ RunsOnMessage("cmd_add_expense", u, text)
    /\ nStarts < MaxStarts
    /\ nStarts' = nStarts + 1
    /\ state' = [state EXCEPT ![u] = AddExpense_waiting_for_amount]
    /\ Handled(u, "cmd_add_expense", "prompt")
    /\ UNCHANGED <<data, db, env>>

\* a faulty variant: the except branch also calls state.clear()
process_expense_amount_clears(u, text) ==
    /\ RunsOnMessage("process_expense_amount", u, text)
    /\ IF AmountRaises(text)
       THEN /\ Clear(u)
            /\ Handled(u, "process_expense_amount", "invalid")
       ELSE /\ data' = [data EXCEPT ![u] = UpdateData(@, "amount", Amount(text))]
            /\ state' = [state EXCEPT ![u] = AddExpense_waiting_for_category]
            /\ Handled(u, "process_expense_amount", "prompt")
    /\ UNCHANGED <<db, env, nStarts>>

process_expense_amount(u, text) ==
    /\ RunsOnMessage("process_expense_amount", u, text)
    /\ IF AmountRaises(text)
       THEN /\ Handled(u, "process_expense_amount", "invalid")
            /\ UNCHANGED <<state, data>>
       ELSE /\ data' = [data EXCEPT ![u] = UpdateData(@, "amount", Amount(text))]
            /\ state' = [state EXCEPT ![u] = AddExpense_waiting_for_category]
            /\ Handled(u, "process_expense_amount", "prompt")
    /\ UNCHANGED <<db, env, nStarts>>

\* a faulty variant: state.set_state(None) in place of state.clear()
cancel_expense_keeps_data(u, text) ==
    /\ RunsOnMessage("cancel_expense", u, text)
    /\ state' = [state EXCEPT ![u] = None]
    /\ Handled(u, "cancel_expense", "cancelled")
    /\ UNCHANGED <<data, db, env, nStarts>>

cancel_expense(u, text) ==
    /\ RunsOnMessage("cancel_expense", u, text)
    /\ Clear(u)
    /\ Handled(u, "cancel_expense", "cancelled")
    /\ UNCHANGED <<db, env, nStarts>>

\* a faulty variant: the row is stored and state.clear() is left out
process_expense_category_keeps_session(u, text) ==
    /\ RunsOnMessage("process_expense_category", u, text)
    /\ IF text \notin ValidExpenseCategories
       THEN /\ Handled(u, "process_expense_category", "invalid")
            /\ UNCHANGED <<state, data, db>>
       ELSE LET w == add_expense_to_db(u, data[u].amount, text)
            IN  /\ seq.expenses < MaxRows
                /\ expenses' = w.rows
                /\ seq' = [seq EXCEPT !.expenses = w.id]
                /\ expenseRate' = RateAfterWrite(expenseRate, w.rows, {w.id})
                /\ Handled(u, "process_expense_category", "done")
                /\ UNCHANGED <<state, data, income, budgets, goals, incomeRate>>
    /\ UNCHANGED <<env, nStarts>>

\* a faulty variant: the text is looked up in both enumerations
process_expense_category_any_kind(u, text) ==
    /\ RunsOnMessage("process_expense_category", u, text)
    /\ IF text \notin ValidExpenseCategories \cup ValidIncomeCategories
       THEN /\ Handled(u, "process_expense_category", "invalid")
            /\ UNCHANGED <<state, data, db>>
       ELSE LET w == add_expense_to_db(u, data[u].amount, text)
            IN  /\ seq.expenses < MaxRows
                /\ expenses' = w.rows
                /\ seq' = [seq EXCEPT !.expenses = w.id]
                /\ expenseRate' = RateAfterWrite(expenseRate, w.rows, {w.id})
                /\ Clear(u)
                /\ Handled(u, "process_expense_category", "done")
                /\ UNCHANGED <<income, budgets, goals, incomeRate>>
    /\ UNCHANGED <<env, nStarts>>

process_expense_category(u, text) ==
    /\ RunsOnMessage("process_expense_category", u, text)
    /\ IF text \notin ValidExpenseCategories
       THEN /\ Handled(u, "process_expense_category", "invalid")
            /\ UNCHANGED <<state, data, db>>
       ELSE LET w == add_expense_to_db(u, data[u].amount, text)
            IN  /\ seq.expenses < MaxRows
                /\ expenses' = w.rows
                /\ seq' = [seq EXCEPT !.expenses = w.id]
                /\ expenseRate' = RateAfterWrite(expenseRate, w.rows, {w.id})
                /\ Clear(u)
                /\ Handled(u, "process_expense_category", "done")
                /\ UNCHANGED <<income, budgets, goals, incomeRate>>
    /\ UNCHANGED <<env, nStarts>>

(***************************************************************************)
(* INCOME (bot.py 703-748)                                                 *)
(***************************************************************************)
cmd_add_income(u, text) ==
    /\ RunsOnMessage("cmd_add_income", u, text)
    /\ nStarts < MaxStarts
    /\ nStarts' = nStarts + 1
    /\ state' = [state EXCEPT ![u] = AddIncome_waiting_for_amount]
    /\ Handled(u, "cmd_add_income", "prompt")
    /\ UNCHANGED <<data, db, env>>

process_income_amount(u, text) ==
    /\ RunsOnMessage("process_income_amount", u, text)
    /\ IF AmountRaises(text)
       THEN /\ Handled(u, "process_income_amount", "invalid")
            /\ UNCHANGED <<state, data>>
       ELSE /\ data' = [data EXCEPT ![u] = UpdateData(@, "amount", Amount(text))]
            /\ state' = [state EXCEPT ![u] = AddIncome_waiting_for_category]
            /\ Handled(u, "process_income_amount", "prompt")
    /\ UNCHANGED <<db, env, nStarts>>

cancel_income(u, text) ==
    /\ RunsOnMessage("cancel_income", u, text)
    /\ Clear(u)
    /\ Handled(u, "cancel_income", "cancelled")
    /\ UNCHANGED <<db, env, nStarts>>

process_income_category(u, text) ==
    /\ RunsOnMessage("process_income_category", u, text)
    /\ IF text \notin ValidIncomeCategories
       THEN /\ Handled(u, "process_income_category", "invalid")
            /\ UNCHANGED <<state, data, db>>
       ELSE LET w == add_income_to_db(u, data[u].amount, text)
            IN  /\ seq.income < MaxRows
                /\ income' = w.rows
                /\ seq' = [seq EXCEPT !.income = w.id]
                /\ incomeRate' = RateAfterWrite(incomeRate, w.rows, {w.id})
                /\ Clear(u)
                /\ Handled(u, "process_income_category", "done")
                /\ UNCHANGED <<expenses, budgets, goals, expenseRate>>
    /\ UNCHANGED <<env, nStarts>>

(***************************************************************************)
(* CONVERTER (bot.py 752-812)                                              *)
(***************************************************************************)
cmd_convert(u, text) ==
    /\ RunsOnMessage("cmd_convert", u, text)
    /\ nStarts < MaxStarts
    /\ nStarts' = nStarts + 1
    /\ state' = [state EXCEPT ![u] = Convert_waiting_for_amount]
    /\ Handled(u, "cmd_convert", "prompt")
    /\ UNCHANGED <<data, db, env>>

convert_amount(u, text) ==
    /\ RunsOnMessage("convert_amount", u, text)
    /\ IF AmountRaises(text)
       THEN /\ Handled(u, "convert_amount", "invalid")
            /\ UNCHANGED <<state, data>>
       ELSE /\ data' = [data EXCEPT ![u] = UpdateData(@, "amount", Amount(text))]
            /\ state' = [state EXCEPT ![u] = Convert_waiting_for_from_currency]
            /\ Handled(u, "convert_amount", "prompt")
    /\ UNCHANGED <<db, env, nStarts>>

\* from_currency = callback.data.split("_")[1], whatever the button was
convert_from_currency(u, cb) ==
    /\ RunsOnCallback("convert_from_currency", u, cb)
    /\ data' = [data EXCEPT ![u] = UpdateData(@, "from_currency", cb[2])]
    /\ state' = [state EXCEPT ![u] = Convert_waiting_for_to_currency]
    /\ Handled(u, "convert_from_currency", "prompt")
    /\ UNCHANGED <<db, env, nStarts>>

convert_to_currency(u, cb) ==
    /\ RunsOnCallback("convert_to_currency", u, cb)
    /\ Clear(u)
    /\ Handled(u, "convert_to_currency", "done")
    /\ UNCHANGED <<db, env, nStarts>>

(***************************************************************************)
(* DELETE (bot.py 944-962)                                                 *)
(***************************************************************************)
delete_expense_callback(u, cb) ==
    /\ RunsOnCallback("delete_expense_callback", u, cb)
    /\ LET w == delete_expense(cb[3], u)
       IN  /\ expenses' = w.rows
           /\ expenseRate' = RateAfterWrite(expenseRate, w.rows, {})
           /\ Handled(u, "delete_expense_callback",
                      IF w.deleted THEN "deleted" ELSE "not_found")
    /\ UNCHANGED <<state, data, income, budgets, goals, seq, incomeRate, env,
                   nStarts>>

delete_income_callback(u, cb) ==
    /\ RunsOnCallback("delete_income_callback", u, cb)
    /\ LET w == delete_income(cb[3], u)
       IN  /\ income' = w.rows
           /\ incomeRate' = RateAfterWrite(incomeRate, w.rows, {})
           /\ Handled(u, "delete_income_callback",
                      IF w.deleted THEN "deleted" ELSE "not_found")
    /\ UNCHANGED <<state, data, expenses, budgets, goals, seq, expenseRate, env,
                   nStarts>>

(***************************************************************************)
(* EDIT (bot.py 966-1082)                                                  *)
(***************************************************************************)
edit_expense_callback(u, cb) ==
    /\ RunsOnCallback("edit_expense_callback", u, cb)
    /\ nStarts < MaxStarts
    /\ nStarts' = nStarts + 1
    /\ data' = [data EXCEPT ![u] = UpdateData(@, "expense_id", cb[3])]
    /\ state' = [state EXCEPT ![u] = EditExpense_waiting_for_new_amount]
    /\ Handled(u, "edit_expense_callback", "prompt")
    /\ UNCHANGED <<db, env>>

process_edit_expense_amount(u, text) ==
    /\ RunsOnMessage("process_edit_expense_amount", u, text)
    /\ IF AmountRaises(text)
       THEN /\ Handled(u, "process_edit_expense_amount", "invalid")
            /\ UNCHANGED <<state, data>>
       ELSE /\ data' = [data EXCEPT ![u] =
                            UpdateData(@, "new_amount", Amount(text))]
            /\ state' = [state EXCEPT ![u] = EditExpense_waiting_for_new_category]
            /\ Handled(u, "process_edit_expense_amount", "prompt")
    /\ UNCHANGED <<db, env, nStarts>>

cancel_edit_expense(u, text) ==
    /\ RunsOnMessage("cancel_edit_expense", u, text)
    /\ Clear(u)
    /\ Handled(u, "cancel_edit_expense", "cancelled")
    /\ UNCHANGED <<db, env, nStarts>>

\* a faulty variant: the update goes to the sender's first row, not to the
\* row of data["expense_id"]
process_edit_expense_category_first_row(u, text) ==
    /\ RunsOnMessage("process_edit_expense_category", u, text)
    /\ IF text \notin ValidExpenseCategories
       THEN /\ Handled(u, "process_edit_expense_category", "invalid")
            /\ UNCHANGED <<state, data, expenses, expenseRate>>
       ELSE LET own == { r.id : r \in { x \in expenses : x.user_id = u } }
                expense_id == IF own = {} THEN data[u].expense_id
                              ELSE CHOOSE i \in own : \A j \in own : i <= j
                w == update_expense(expense_id, u, data[u].new_amount, text)
            IN  /\ expenses' = w.rows
                /\ expenseRate' = RateAfterWrite(expenseRate, w.rows, w.written)
                /\ Clear(u)
                /\ Handled(u, "process_edit_expense_category",
                           IF w.updated THEN "done" ELSE "not_found")
    /\ UNCHANGED <<income, budgets, goals, seq, incomeRate, env, nStarts>>

\* On success the session is cleared before the reply is sent; on failure the
\* reply is sent first, and state.clear() is reached only if message.answer
\* returns (sent) rather than raises.
process_edit_expense_category(u, text) ==
    /\ RunsOnMessage("process_edit_expense_category", u, text)
    /\ IF text \notin ValidExpenseCategories
       THEN /\ Handled(u, "process_edit_expense_category", "invalid")
            /\ UNCHANGED <<state, data, expenses, expenseRate>>
       ELSE LET w == update_expense(data[u].expense_id, u, data[u].new_amount,
                                    text)
            IN  /\ expenses' = w.rows
                /\ expenseRate' = RateAfterWrite(expenseRate, w.rows, w.written)
                /\ IF w.updated
                   THEN /\ Clear(u)
                        /\ Handled(u, "process_edit_expense_category", "done")
                   ELSE \E sent \in BOOLEAN :
                        IF sent
                        THEN /\ Clear(u)
                             /\ Handled(u, "process_edit_expense_category",
                                        "not_found")
                        ELSE /\ UNCHANGED <<state, data>>
                             /\ Handled(u, "process_edit_expense_category",
                                        "send_failed")
    /\ UNCHANGED <<income, budgets, goals, seq, incomeRate, env, nStarts>>

edit_income_callback(u, cb) ==
    /\ RunsOnCallback("edit_income_callback", u, cb)
    /\ nStarts < MaxStarts
    /\ nStarts' = nStarts + 1
    /\ data' = [data EXCEPT ![u] = UpdateData(@, "income_id", cb[3])]
    /\ state' = [state EXCEPT ![u] = EditIncome_waiting_for_new_amount]
    /\ Handled(u, "edit_income_callback", "prompt")
    /\ UNCHANGED <<db, env>>

process_edit_income_amount(u, text) ==
    /\ RunsOnMessage("process_edit_income_amount", u, text)
    /\ IF AmountRaises(text)
       THEN /\ Handled(u, "process_edit_income_amount", "invalid")
            /\ UNCHANGED <<state, data>>
       ELSE /\ data' = [data EXCEPT ![u] =
                            UpdateData(@, "new_amount", Amount(text))]
            /\ state' = [state EXCEPT ![u] = EditIncome_waiting_for_new_category]
            /\ Handled(u, "process_edit_income_amount", "prompt")
    /\ UNCHANGED <<db, env, nStarts>>

cancel_edit_income(u, text) ==
    /\ RunsOnMessage("cancel_edit_income", u, text)
    /\ Clear(u)
    /\ Handled(u, "cancel_edit_income", "cancelled")
    /\ UNCHANGED <<db, env, nStarts>>

process_edit_income_category(u, text) ==
    /\ RunsOnMessage("process_edit_income_category", u, text)
    /\ IF text \notin ValidIncomeCategories
       THEN /\ Handled(u, "process_edit_income_category", "invalid")
            /\ UNCHANGED <<state, data, income, incomeRate>>
       ELSE LET w == update_income(data[u].income_id, u, data[u].new_amount,
                                   text)
            IN  /\ income' = w.rows
                /\ incomeRate' = RateAfterWrite(incomeRate, w.rows, w.written)
                /\ IF w.updated
                   THEN /\ Clear(u)
                        /\ Handled(u, "process_edit_income_category", "done")
                   ELSE \E sent \in BOOLEAN :
                        IF sent
                        THEN /\ Clear(u)
                             /\ Handled(u, "process_edit_income_category",
                                        "not_found")
                        ELSE /\ UNCHANGED <<state, data>>
                             /\ Handled(u, "process_edit_income_category",
                                        "send_failed")
    /\ UNCHANGED <<expenses, budgets, goals, seq, expenseRate, env, nStarts>>

\* a button press no callback handler's filters pass
UnhandledCallback(u, cb) ==
    /\ RunsOnCallback("unhandled", u, cb)
    /\ UNCHANGED <<last, state, data, db, env, nStarts>>

(***************************************************************************)
(* API (bot.py 79-105): one run of fetch_exchange_rates.                   *)
(*   outcome "raised": session.get or response.json raises, or the         *)
(*                     document has no "Valute"                            *)
(*   outcome "status": response.status is not 200                          *)
(*   outcome "json":   data["Valute"] is the payload; an entry is <<v>>    *)
(*                     ({"Value": v}) or <<>> (an entry without "Value")   *)
(* The run is one step: no await stands between response.json() and the    *)
(* return.                                                                 *)
(***************************************************************************)
Payloads ==
    { [USD |-> <<8000>>, BYN |-> <<2500>>] }

\* one run on a document drawn from payloads; stamp is datetime.now()
FetchOutcome(payloads, stamp) ==
    \/ /\ UNCHANGED EXCHANGE_RATES
       /\ Handled(0, "fetch_exchange_rates", "False")
    \/ /\ UNCHANGED EXCHANGE_RATES
       /\ Handled(0, "fetch_exchange_rates", "None")
    \/ \E p \in payloads :
         LET hasUSD == "USD" \in DOMAIN p
             hasBYN == "BYN" \in DOMAIN p
             r1 == IF hasUSD /\ p.USD # <<>>
                   THEN [EXCHANGE_RATES EXCEPT !.USD = p.USD[1]]
                   ELSE EXCHANGE_RATES
             raised1 == hasUSD /\ p.USD = <<>>
             r2 == IF ~raised1 /\ hasBYN /\ p.BYN # <<>>
                   THEN [r1 EXCEPT !.BYN = p.BYN[1]]
                   ELSE r1
             raised2 == ~raised1 /\ hasBYN /\ p.BYN = <<>>
         IN  IF raised1 \/ raised2
             THEN /\ EXCHANGE_RATES' = r2
                  /\ Handled(0, "fetch_exchange_rates", "False")
             ELSE /\ EXCHANGE_RATES' = [r2 EXCEPT !.last_update = stamp]
                  /\ Handled(0, "fetch_exchange_rates", "True")

\* one run, on a document drawn from payloads, of at most limit runs
fetch_exchange_rates_on(payloads, limit) ==
    /\ nFetches < limit
    /\ nFetches' = nFetches + 1
    /\ FetchOutcome(payloads, nFetches')
    /\ UNCHANGED <<state, data, db, today, now, nStarts>>

fetch_exchange_rates == fetch_exchange_rates_on(Payloads, MaxFetches)

\* a faulty variant: the amount in roubles is multiplied by the rate of
\* to_cur
convert_currency_multiplies(amount, from_cur, to_cur) ==
    IF from_cur \notin {"RUB", "USD", "BYN"} THEN << 0, 0 >>
    ELSE LET amount_in_rub ==
                 IF from_cur = "RUB" THEN amount
                 ELSE FloatMul(amount,
                               FloatOfHundredths(EXCHANGE_RATES[from_cur]))
         IN  IF to_cur = "RUB" THEN amount_in_rub
             ELSE IF to_cur \in {"USD", "BYN"}
                  THEN FloatMul(amount_in_rub,
                                FloatOfHundredths(EXCHANGE_RATES[to_cur]))
                  ELSE << 0, 0 >>

\* convert_currency (bot.py 107-124): amount * rate of from_cur, then
\* / rate of to_cur, the rate of RUB being no operation at all; 0 for a
\* code that is none of RUB, USD, BYN
convert_currency(amount, from_cur, to_cur) ==
    IF from_cur \notin {"RUB", "USD", "BYN"} THEN << 0, 0 >>
    ELSE LET amount_in_rub ==
                 IF from_cur = "RUB" THEN amount
                 ELSE FloatMul(amount,
                               FloatOfHundredths(EXCHANGE_RATES[from_cur]))
         IN  IF to_cur = "RUB" THEN amount_in_rub
             ELSE IF to_cur \in {"USD", "BYN"}
                  THEN FloatDiv(amount_in_rub,
                                FloatOfHundredths(EXCHANGE_RATES[to_cur]))
                  ELSE << 0, 0 >>

(***************************************************************************)
(* The specification.  cmd_set_budget, cancel_budget,                      *)
(* process_budget_category and process_budget_amount are not steps of      *)
(* Next: MessageHandler never selects cmd_set_budget (cmd_budgets_menu is  *)
(* registered first with the same Command filter), so no FSM state of      *)
(* SetBudget is ever entered.                                              *)
(***************************************************************************)
\* one message of user u
OnMessage(u, text) ==
    \/ ReadOnlyQuery(u, text)
    \/ cmd_budgets_menu(u, text)
    \/ UnhandledMessage(u, text)
    \/ cmd_create_goal(u, text)
    \/ process_goal_name(u, text)
    \/ process_goal_amount(u, text)
    \/ cmd_add_expense(u, text)
    \/ process_expense_amount(u, text)
    \/ cancel_expense(u, text)
    \/ process_expense_category(u, text)
    \/ cmd_add_income(u, text)
    \/ process_income_amount(u, text)
    \/ cancel_income(u, text)
    \/ process_income_category(u, text)
    \/ cmd_convert(u, text)
    \/ convert_amount(u, text)
    \/ process_edit_expense_amount(u, text)
    \/ cancel_edit_expense(u, text)
    \/ process_edit_expense_category(u, text)
    \/ process_edit_income_amount(u, text)
    \/ cancel_edit_income(u, text)
    \/ process_edit_income_category(u, text)

\* one button press of user u
OnCallback(u, cb) ==
    \/ convert_from_currency(u, cb)
    \/ convert_to_currency(u, cb)
    \/ delete_expense_callback(u, cb)
    \/ delete_income_callback(u, cb)
    \/ edit_expense_callback(u, cb)
    \/ edit_income_callback(u, cb)
    \/ UnhandledCallback(u, cb)

Next ==
    \/ \E u \in Users : \E text \in Texts : OnMessage(u, text)
    \/ \E u \in Users : \E cb \in Callbacks : OnCallback(u, cb)
    \/ fetch_exchange_rates

Spec == Init /\ [][Next]_vars

TypeOK ==
    /\ \A u \in Users : DOMAIN data[u] \subseteq
          {"amount", "category", "name", "expense_id", "income_id",
           "new_amount", "from_currency"}
    /\ seq.expenses <= MaxRows /\ seq.income <= MaxRows
    /\ nStarts <= MaxStarts

(***************************************************************************)
(* The ledger alone: the database functions called directly, with any      *)
(* caller's arguments, on the tables of Init.  last.reply is the value     *)
(* the function returned.                                                  *)
(***************************************************************************)
\* the amounts passed: 1250.50 to the inserts, 300.00 to the updates
InsertAmounts == { Amount(T_1250_50) }
UpdateAmounts == { Amount(T_300) }

Returned(user_id, f, value) ==
    last' = [user |-> user_id, handler |-> f, reply |-> value]

CallAddExpense(user_id, amount_rub) ==
    LET w == add_expense_to_db(user_id, amount_rub, T_PRODUKTY)
    IN  /\ seq.expenses < MaxRows
        /\ expenses' = w.rows
        /\ seq' = [seq EXCEPT !.expenses = w.id]
        /\ expenseRate' = RateAfterWrite(expenseRate, w.rows, {w.id})
        /\ Returned(user_id, "add_expense_to_db", "stored")
        /\ UNCHANGED <<state, data, income, budgets, goals, incomeRate, env,
                       nStarts>>

CallAddIncome(user_id, amount_rub) ==
    LET w == add_income_to_db(user_id, amount_rub, T_ZARPLATA)
    IN  /\ seq.income < MaxRows
        /\ income' = w.rows
        /\ seq' = [seq EXCEPT !.income = w.id]
        /\ incomeRate' = RateAfterWrite(incomeRate, w.rows, {w.id})
        /\ Returned(user_id, "add_income_to_db", "stored")
        /\ UNCHANGED <<state, data, expenses, budgets, goals, expenseRate, env,
                       nStarts>>

CallUpdateExpense(expense_id, user_id, amount_rub) ==
    LET w == update_expense(expense_id, user_id, amount_rub, T_TAKSI)
    IN  /\ expenses' = w.rows
        /\ expenseRate' = RateAfterWrite(expenseRate, w.rows, w.written)
        /\ Returned(user_id, "update_expense",
                    IF w.updated THEN "True" ELSE "False")
        /\ UNCHANGED <<state, data, income, budgets, goals, seq, incomeRate,
                       env, nStarts>>

CallUpdateIncome(income_id, user_id, amount_rub) ==
    LET w == update_income(income_id, user_id, amount_rub, T_DRUGOE)
    IN  /\ income' = w.rows
        /\ incomeRate' = RateAfterWrite(incomeRate, w.rows, w.written)
        /\ Returned(user_id, "update_income",
                    IF w.updated THEN "True" ELSE "False")
        /\ UNCHANGED <<state, data, expenses, budgets, goals, seq, expenseRate,
                       env, nStarts>>

CallDeleteExpense(expense_id, user_id) ==
    LET w == delete_expense(expense_id, user_id)
    IN  /\ expenses' = w.rows
        /\ expenseRate' = RateAfterWrite(expenseRate, w.rows, {})
        /\ Returned(user_id, "delete_expense",
                    IF w.deleted THEN "True" ELSE "False")
        /\ UNCHANGED <<state, data, income, budgets, goals, seq, incomeRate,
                       env, nStarts>>

CallDeleteIncome(income_id, user_id) ==
    LET w == delete_income(income_id, user_id)
    IN  /\ income' = w.rows
        /\ incomeRate' = RateAfterWrite(incomeRate, w.rows, {})
        /\ Returned(user_id, "delete_income",
                    IF w.deleted THEN "True" ELSE "False")
        /\ UNCHANGED <<state, data, expenses, budgets, goals, seq, expenseRate,
                       env, nStarts>>

NextLedger ==
    \E user_id \in Users :
        \/ \E amount_rub \in InsertAmounts :
              \/ CallAddExpense(user_id, amount_rub)
              \/ CallAddIncome(user_id, amount_rub)
        \/ \E amount_rub \in UpdateAmounts : \E id \in Ids :
              \/ CallUpdateExpense(id, user_id, amount_rub)
              \/ CallUpdateIncome(id, user_id, amount_rub)
        \/ \E id \in Ids :
              \/ CallDeleteExpense(id, user_id)
              \/ CallDeleteIncome(id, user_id)

SpecLedger == Init /\ [][NextLedger]_vars

(***************************************************************************)
(* The ledger over several days: the inserts and the queries over them,    *)
(* called directly, while the calendar moves on.  A query leaves in        *)
(* last.reply the arguments it was given and the value it returned.        *)
(***************************************************************************)
\* the last day a run reaches
MaxDay == 2

\* datetime.now() moves to the next day
NextDay ==
    /\ today < MaxDay
    /\ today' = today + 1
    /\ now' = 0
    /\ last' = [user |-> 0, handler |-> "NextDay", reply |-> "none"]
    /\ UNCHANGED <<state, data, db, EXCHANGE_RATES, nFetches, nStarts>>

\* the windows asked for: today, and the last two days
QueryDays == { 1, 2 }

Query(user_id, f, args, value) ==
    /\ last' = [user |-> user_id, handler |-> f,
                reply |-> [args |-> args, value |-> value]]
    /\ UNCHANGED <<state, data, db, env, nStarts>>

CallGetTotalExpenses(user_id, days) ==
    Query(user_id, "get_total_expenses", <<days>>,
          get_total_expenses(user_id, days))

CallGetTotalIncome(user_id, days) ==
    Query(user_id, "get_total_income", <<days>>,
          get_total_income(user_id, days))

CallGetBalance(user_id) ==
    Query(user_id, "get_balance", << >>, get_balance(user_id))

NextCalendar ==
    \/ NextDay
    \/ \E user_id \in Users :
          \/ \E amount_rub \in InsertAmounts :
                \/ CallAddExpense(user_id, amount_rub)
                \/ CallAddIncome(user_id, amount_rub)
          \/ \E days \in QueryDays :
                \/ CallGetTotalExpenses(user_id, days)
                \/ CallGetTotalIncome(user_id, days)

SpecCalendar == Init /\ [][NextCalendar]_vars

\* every ledger function, the calendar and get_balance
NextBalance ==
    \/ NextDay
    \/ NextLedger
    \/ \E user_id \in Users : CallGetBalance(user_id)

SpecBalance == Init /\ [][NextBalance]_vars

(***************************************************************************)
(* The budgets: set_budget and check_budget_exceeded called directly,      *)
(* beside the expense functions, while the calendar moves on.              *)
(***************************************************************************)
\* the expenses a run inserts
MaxBudgetRows == 3
\* the budgets a run sets
MaxBudgets == 2

\* 300.00 for every expense; limits of 750.00 and 1000.00 (the callers pass
\* positive limits: process_budget_amount rejects amount <= 0)
BudgetAmounts == { Amount(T_300) }
BudgetLimits == { 75000, 100000 }
BudgetCategories == { T_PRODUKTY, T_TAKSI }

CallAddExpenseIn(user_id, amount_rub, category) ==
    LET w == add_expense_to_db(user_id, amount_rub, category)
    IN  /\ seq.expenses < MaxBudgetRows
        /\ expenses' = w.rows
        /\ seq' = [seq EXCEPT !.expenses = w.id]
        /\ expenseRate' = RateAfterWrite(expenseRate, w.rows, {w.id})
        /\ Returned(user_id, "add_expense_to_db", "stored")
        /\ UNCHANGED <<state, data, income, budgets, goals, incomeRate, env,
                       nStarts>>

CallSetBudget(user_id, category, limit_rub) ==
    LET w == set_budget(user_id, category, limit_rub)
    IN  /\ budgets' = w.rows
        /\ seq' = [seq EXCEPT !.budgets = w.id]
        /\ last' = [user |-> user_id, handler |-> "set_budget",
                    reply |-> [args |-> <<category, limit_rub>>,
                               value |-> "None"]]
        /\ UNCHANGED <<state, data, expenses, income, goals, expenseRate,
                       incomeRate, env, nStarts>>

CallCheckBudgetExceeded(user_id, category) ==
    Query(user_id, "check_budget_exceeded", <<category>>,
          check_budget_exceeded(user_id, category))

NextBudget ==
    \/ NextDay
    \/ \E user_id \in Users :
          \/ \E amount_rub \in BudgetAmounts :
                \/ CallAddExpenseIn(user_id, amount_rub, T_PRODUKTY)
                \/ \E id \in Ids :
                      CallUpdateExpense(id, user_id, amount_rub)
          \/ \E id \in Ids : CallDeleteExpense(id, user_id)
          \/ \E limit_rub \in BudgetLimits :
                /\ seq.budgets < MaxBudgets
                /\ CallSetBudget(user_id, T_PRODUKTY, limit_rub)
          \/ \E category \in BudgetCategories :
                CallCheckBudgetExceeded(user_id, category)

SpecBudget == Init /\ [][NextBudget]_vars

\* the budgets table alone: set_budget with any owner, category and limit,
\* on any day
MaxBudgetCalls == 3

NextBudgetTable ==
    \/ NextDay
    \/ \E user_id \in Users : \E category \in BudgetCategories :
          \E limit_rub \in BudgetLimits :
             /\ seq.budgets < MaxBudgetCalls
             /\ CallSetBudget(user_id, category, limit_rub)

SpecBudgetTable == Init /\ [][NextBudgetTable]_vars

(***************************************************************************)
(* The rates alone: fetch_exchange_rates run again and again on documents  *)
(* of every shape, and cmd_rates reading the snapshot in between.          *)
(***************************************************************************)
\* the runs of fetch_exchange_rates in a run of the model
MaxRateFetches == 3

\* the values the source publishes at the n-th fetch
PublishedUSD(n) == 8000 + n
PublishedBYN(n) == 2500 + n

\* data["Valute"] at the n-th fetch: complete; without "BYN"; without "USD";
\* with a "USD" entry that has no "Value"; with such a "BYN" entry; empty
RatePayloads(n) ==
    { [USD |-> << PublishedUSD(n) >>, BYN |-> << PublishedBYN(n) >>],
      [USD |-> << PublishedUSD(n) >>],
      [BYN |-> << PublishedBYN(n) >>],
      [USD |-> << >>, BYN |-> << PublishedBYN(n) >>],
      [USD |-> << PublishedUSD(n) >>, BYN |-> << >>],
      [k \in {} |-> << >>] }

\* cmd_rates: the reply shows the two rates and the time of the last update
cmd_rates_reply(u) ==
    /\ last' = [user |-> u, handler |-> "cmd_rates",
                reply |-> [USD |-> EXCHANGE_RATES.USD,
                           BYN |-> EXCHANGE_RATES.BYN,
                           time_str |-> IF EXCHANGE_RATES.last_update = 0
                                        THEN "ne obnovlyalis"
                                        ELSE "HH:MM"]]
    /\ UNCHANGED <<state, data, db, env, nStarts>>

NextRates ==
    \/ fetch_exchange_rates_on(RatePayloads(nFetches + 1), MaxRateFetches)
    \/ \E u \in Users : cmd_rates_reply(u)

SpecRates == Init /\ [][NextRates]_vars

(***************************************************************************)
(* convert_currency alone: on a snapshot of rates drawn at the start, the  *)
(* function is applied to an amount and two codes, and again to its        *)
(* result with the codes exchanged.                                        *)
(***************************************************************************)
\* the snapshots: rates in hundredths
SnapshotsUSD == { USD_FALLBACK, 8002 }
SnapshotsBYN == { BYN_FALLBACK, 2501 }

\* the amounts converted, in hundredths: 0.01 to 0.12
MaxConvertAmount == 12
ConvertAmounts == 1..MaxConvertAmount
Currencies == { "RUB", "USD", "BYN" }

\* Init, with the snapshot left by earlier fetches
InitConvert ==
    /\ state = [u \in Users |-> None]
    /\ data = [u \in Users |-> NoData]
    /\ expenses = {}
    /\ income = {}
    /\ budgets = {}
    /\ goals = {}
    /\ seq = [expenses |-> 0, income |-> 0, budgets |-> 0, goals |-> 0]
    /\ \E usd \in SnapshotsUSD, byn \in SnapshotsBYN :
          EXCHANGE_RATES = [USD |-> usd, BYN |-> byn, last_update |-> 0]
    /\ today = 0
    /\ now = 0
    /\ last = [user |-> 0, handler |-> "init", reply |-> "none"]
    /\ expenseRate = [id \in {} |-> 0]
    /\ incomeRate = [id \in {} |-> 0]
    /\ nStarts = 0
    /\ nFetches = 0

\* result = convert_currency(amount, a, b), then
\* back = convert_currency(result, b, a)
CallConvertCurrency(x, a, b) ==
    LET amount == FloatOfHundredths(x)
        result == convert_currency(amount, a, b)
        back == convert_currency(result, b, a)
    IN  /\ last' = [user |-> 0, handler |-> "convert_currency",
                    reply |-> [amount |-> amount, from_cur |-> a,
                               to_cur |-> b, result |-> result,
                               back |-> back]]
        /\ UNCHANGED <<state, data, db, env, nStarts>>

NextConvert ==
    \E x \in ConvertAmounts : \E a \in Currencies, b \in Currencies :
        CallConvertCurrency(x, a, b)

SpecConvert == InitConvert /\ [][NextConvert]_vars

(***************************************************************************)
(* The history queries (bot.py 336-362), called directly while the clock   *)
(* second moves on.                                                        *)
(***************************************************************************)
\* the last clock second of a date a run reaches
MaxSecond == 1

\* CURRENT_TIMESTAMP moves to the next second
Tick ==
    /\ now < MaxSecond
    /\ now' = now + 1
    /\ last' = [user |-> 0, handler |-> "Tick", reply |-> "none"]
    /\ UNCHANGED <<state, data, db, EXCHANGE_RATES, today, nFetches, nStarts>>

\* created_at of a is later than created_at of b
Later(a, b) == a[1] > b[1] \/ (a[1] = b[1] /\ a[2] > b[2])

\* ORDER BY created_at DESC: every order of the selected rows that the
\* clause allows.  Rows of one created_at come in an order SQL leaves open
\* (SQLite's sorter gives them in scan order, lowest id first).
OrderByCreatedAtDesc(selected) ==
    LET n == Cardinality(selected)
    IN  { s \in [1..n -> selected] :
            /\ \A i, j \in 1..n : i # j => s[i] # s[j]
            /\ \A i, j \in 1..n :
                  i < j => ~Later(s[j].created_at, s[i].created_at) }

\* SELECT id, date, amount_rub, amount_usd, category, description
Selected(r) == << r.id, r.date, r.amount_rub, r.amount_usd, r.category, "" >>

\* WHERE user_id = ? ORDER BY created_at DESC LIMIT ?: every answer the
\* statement allows
RecentRows(rows, user_id, limit) ==
    LET owned == { r \in rows : r.user_id = user_id }
        n == Cardinality(owned)
        k == IF limit < n THEN limit ELSE n
    IN  { [i \in 1..k |-> Selected(s[i])] : s \in OrderByCreatedAtDesc(owned) }

get_recent_expenses(user_id, limit) == RecentRows(expenses, user_id, limit)

get_recent_income(user_id, limit) == RecentRows(income, user_id, limit)

\* the limits asked for
RecentLimits == { 1, 2 }

CallGetRecentExpenses(user_id, limit) ==
    \E results \in get_recent_expenses(user_id, limit) :
        Query(user_id, "get_recent_expenses", <<limit>>, results)

CallGetRecentIncome(user_id, limit) ==
    \E results \in get_recent_income(user_id, limit) :
        Query(user_id, "get_recent_income", <<limit>>, results)

NextRecent ==
    \/ Tick
    \/ \E user_id \in Users :
          \/ \E amount_rub \in InsertAmounts :
                \/ CallAddExpense(user_id, amount_rub)
                \/ CallAddIncome(user_id, amount_rub)
          \/ \E limit \in RecentLimits :
                \/ CallGetRecentExpenses(user_id, limit)
                \/ CallGetRecentIncome(user_id, limit)

SpecRecent == Init /\ [][NextRecent]_vars

(***************************************************************************)
(* The goal list (bot.py 279-289, 573-597), asked for directly on goals    *)
(* and balances of several sizes.                                          *)
(***************************************************************************)
\* SELECT id, name, target_amount_rub, deadline, created_at FROM goals
\* WHERE user_id = ? ORDER BY created_at DESC
get_goals(user_id) ==
    LET owned == { g \in goals : g.user_id = user_id }
    IN  { [i \in 1..Cardinality(owned) |->
              << s[i].id, s[i].name, s[i].target_amount_rub, s[i].deadline,
                 s[i].created_at >>] : s \in OrderByCreatedAtDesc(owned) }

\* int(x) of the quotient n / d, d > 0: towards zero
Trunc(n, d) == IF n >= 0 THEN n \div d ELSE -((-n) \div d)

\* "█" * n: the empty string when n <= 0
Repeat(cell, n) == [i \in 1..n |-> cell]

\* progress = (balance_rub / target_rub * 100) if target_rub > 0 else 0, as
\* the fraction << numerator, denominator >>; the quotient is taken exactly
Progress(balance_rub, target_rub) ==
    IF target_rub > 0 THEN << balance_rub * 100, target_rub >> ELSE << 0, 1 >>

\* "█" * int(progress / 10) + "░" * (10 - int(progress / 10))
ProgressBar(progress) ==
    LET filled == Trunc(progress[1], progress[2] * 10)
    IN  Repeat("(full)", filled) \o Repeat("(empty)", 10 - filled)

\* the lines of one goal in the text of cmd_goals
GoalLines(goal, balance_rub) ==
    LET progress == Progress(balance_rub, goal[3])
    IN  [ name |-> goal[2], target_rub |-> goal[3],
          balance_rub |-> balance_rub, progress |-> progress,
          progress_bar |-> ProgressBar(progress) ]

\* the text cmd_goals answers with: the goals in the order of get_goals
cmd_goals(u) ==
    \E listed \in get_goals(u) :
        LET balance_rub == get_balance(u)[1]
        IN  Query(u, "cmd_goals", << >>,
                  [i \in 1..Len(listed) |-> GoalLines(listed[i], balance_rub)])

\* the targets of the goals created
GoalTargets == { Amount(T_300), Amount(T_1250_50) }

CallCreateGoal(user_id, name, target_rub) ==
    LET w == create_goal(user_id, name, target_rub, None)
    IN  /\ seq.goals < MaxRows
        /\ goals' = w.rows
        /\ seq' = [seq EXCEPT !.goals = w.id]
        /\ Returned(user_id, "create_goal", "None")
        /\ UNCHANGED <<state, data, expenses, income, budgets, expenseRate,
                       incomeRate, env, nStarts>>

NextGoals ==
    \E user_id \in Users :
        \/ \E amount_rub \in InsertAmounts :
              \/ CallAddExpense(user_id, amount_rub)
              \/ CallAddIncome(user_id, amount_rub)
        \/ \E name \in GoalNames, target_rub \in GoalTargets :
              CallCreateGoal(user_id, name, target_rub)
        \/ cmd_goals(user_id)

SpecGoals == Init /\ [][NextGoals]_vars

(***************************************************************************)
(* The edit and delete dialogs (bot.py 944-1082) on tables that hold       *)
(* several rows: the rows are inserted by direct calls, the users press    *)
(* the edit and delete buttons and answer the edit wizards' prompts.       *)
(***************************************************************************)
\* what the users type in an edit wizard
EditTexts == { T_1250_50, T_NAME, T_TAKSI, T_ZARPLATA, T_CANCEL }

\* the income rows inserted
MaxSeedIncome == 1

\* the amount of a row before it is edited: 300.00
SeedAmounts == { Amount(T_300) }

NextEdit ==
    \E u \in Users :
        \/ \E amount_rub \in SeedAmounts :
              \/ CallAddExpense(u, amount_rub)
              \/ seq.income < MaxSeedIncome /\ CallAddIncome(u, amount_rub)
        \/ \E cb \in Callbacks :
              \/ edit_expense_callback(u, cb)
              \/ edit_income_callback(u, cb)
              \/ delete_expense_callback(u, cb)
              \/ delete_income_callback(u, cb)
        \/ \E text \in EditTexts :
              \/ process_edit_expense_amount(u, text)
              \/ cancel_edit_expense(u, text)
              \/ process_edit_expense_category(u, text)
              \/ process_edit_income_amount(u, text)
              \/ cancel_edit_income(u, text)
              \/ process_edit_income_category(u, text)

SpecEdit == Init /\ [][NextEdit]_vars

(***************************************************************************)
(* The handlers without FSMContext (bot.py 450-517, 573-597, 816-940) with *)
(* their answers, sent while wizards of the users are under way.           *)
(***************************************************************************)
\* SELECT category, limit_rub FROM budgets WHERE user_id = ? AND month = ?
\* AND year = ?: the rows of the current month, in an order SQL leaves open
get_all_budgets(user_id) ==
    LET sel == { b \in budgets : /\ b.user_id = user_id
                                 /\ b.month = MonthOf(today)
                                 /\ b.year = YearOf(today) }
        n == Cardinality(sel)
    IN  { [i \in 1..n |-> << s[i].category, s[i].limit_rub >>] :
            s \in { t \in [1..n -> sel] :
                      \A i, j \in 1..n : i # j => t[i] # t[j] } }

\* the handlers that read and answer: those without FSMContext and the
\* budget list
QueryHandlers == ReadOnlyHandlers \cup { "cmd_budgets_menu" }

\* the numbers and rows handler h puts in its answer to user u (the BYN line
\* of cmd_balance is convert_currency of balance_rub); "shown" for a fixed
\* text
ReadOnlyAnswers(h, u) ==
    CASE h = "cmd_rates" ->
            { << EXCHANGE_RATES.USD, EXCHANGE_RATES.BYN,
                 EXCHANGE_RATES.last_update # 0 >> }
      [] h = "cmd_balance" -> { get_balance(u) }
      [] h = "cmd_today" ->
            { << get_total_income(u, 1)[1], get_total_expenses(u, 1)[1] >> }
      [] h = "cmd_week" ->
            { << get_total_income(u, 7)[1], get_total_expenses(u, 7)[1] >> }
      [] h = "cmd_month" ->
            { << get_total_income(u, 30)[1], get_total_expenses(u, 30)[1] >> }
      [] h = "cmd_expenses_history" -> get_recent_expenses(u, 10)
      [] h = "cmd_income_history" -> get_recent_income(u, 10)
      [] h = "cmd_goals" ->
            { [i \in 1..Len(listed) |->
                  GoalLines(listed[i], get_balance(u)[1])] :
              listed \in get_goals(u) }
      [] h = "cmd_budgets_menu" ->
            { [i \in 1..Len(listed) |->
                  << listed[i][1],
                     check_budget_exceeded(u, listed[i][1]) >>] :
              listed \in get_all_budgets(u) }
      [] OTHER -> { "shown" }

\* the texts of the queries
QueryTexts ==
    { T_RATES, T_BALANCE, T_TODAY, T_WEEK, T_MONTH, T_HISTORY_EXPENSES,
      T_HISTORY_INCOME, T_GOALS, T_BUDGETS }

\* MessageHandler tabulated over the FSM states and the texts of the queries
QueryTable ==
    [st \in FSMStates |-> [text \in QueryTexts |-> MessageHandler(st, text)]]

\* a faulty variant: the handler ends the sender's wizard
AnswerQuery_clears(u, text) ==
    LET h == QueryTable[state[u]][text]
    IN  /\ h \in QueryHandlers
        /\ Clear(u)
        /\ \E value \in ReadOnlyAnswers(h, u) :
              last' = [user |-> u, handler |-> h,
                       reply |-> [args |-> <<text>>, value |-> value]]
        /\ UNCHANGED <<db, env, nStarts>>

\* the first handler whose filters pass on text is one of QueryHandlers: it
\* reads, answers, and returns
AnswerQuery(u, text) ==
    LET h == QueryTable[state[u]][text]
    IN  /\ h \in QueryHandlers
        /\ \E value \in ReadOnlyAnswers(h, u) :
              Query(u, h, <<text>>, value)

\* the budgets set
MaxSeedBudgets == 1

\* what the users type in the wizards under way
WizardTexts == { T_1250_50, T_NAME, T_PRODUKTY }

NextQueries ==
    \/ fetch_exchange_rates
    \/ \E u \in Users :
          \/ cmd_add_expense(u, T_ADD_EXPENSE)
          \/ cmd_create_goal(u, T_CMD_CREATEGOAL)
          \/ \E cb \in Callbacks : edit_expense_callback(u, cb)
          \/ seq.budgets < MaxSeedBudgets /\
                \E limit_rub \in BudgetLimits :
                    CallSetBudget(u, T_PRODUKTY, limit_rub)
          \/ \E text \in WizardTexts :
                \/ process_expense_amount(u, text)
                \/ process_expense_category(u, text)
                \/ process_goal_name(u, text)
                \/ process_goal_amount(u, text)
                \/ process_edit_expense_amount(u, text)
          \/ \E text \in QueryTexts : AnswerQuery(u, text)

SpecQueries == Init /\ [][NextQueries]_vars

(***************************************************************************)
(* The budgets over the months: set_budget, check_budget_exceeded and      *)
(* get_all_budgets called directly while the calendar moves on.            *)
(***************************************************************************)
CallGetAllBudgets(user_id) ==
    \E results \in get_all_budgets(user_id) :
        Query(user_id, "get_all_budgets", << >>, results)

NextBudgetMonths ==
    \/ NextBudgetTable
    \/ \E user_id \in Users :
          \/ CallGetAllBudgets(user_id)
          \/ \E category \in BudgetCategories :
                CallCheckBudgetExceeded(user_id, category)

SpecBudgetMonths == Init /\ [][NextBudgetMonths]_vars

(***************************************************************************)
(* The refresh loop (bot.py 102-105, started by main, bot.py 1086-1092)    *)
(* beside the users' events.  nFetches counts the turns of the loop round  *)
(* a cycle, so that a run of any length stays within finitely many states. *)
(***************************************************************************)
\* the turns of the loop told apart
RefreshCycle == 2

\* the documents the source answers with
RefreshPayloads == RatePayloads(1) \cup RatePayloads(2)

\* one turn of 'while True': fetch_exchange_rates(), then sleep(3600).
\* fetch_exchange_rates returns in every outcome: 'except Exception' takes
\* what the request raises, its time-out included.
update_rates_periodically ==
    /\ nFetches' = (nFetches % RefreshCycle) + 1
    /\ FetchOutcome(RefreshPayloads, nFetches')
    /\ UNCHANGED <<state, data, db, today, now, nStarts>>

NextRefresh ==
    \/ update_rates_periodically
    \/ \E u \in Users :
          \/ cmd_add_expense(u, T_ADD_EXPENSE)
          \/ \E text \in WizardTexts :
                \/ process_expense_amount(u, text)
                \/ process_expense_category(u, text)

\* the event loop resumes the task whenever its sleep has run out
SpecRefresh ==
    Init /\ [][NextRefresh]_vars /\ WF_vars(update_rates_periodically)

(***************************************************************************)
(* The set-budget steps as functions of the session and the text.  The     *)
(* session is drawn at SetBudget's first step, where only cmd_set_budget   *)
(* (bot.py 521) puts it; process_budget_category, cancel_budget and        *)
(* process_budget_amount (bot.py 527-570) are then run by the dispatcher   *)
(* as their filters say.                                                   *)
(***************************************************************************)
BudgetStepTexts == { T_CANCEL, T_PRODUKTY, T_TAKSI, T_NAME, T_ZERO,
                     T_MINUS_300, T_1250_50 }

InitBudgetSteps ==
    /\ state \in [Users -> {None, SetBudget_waiting_for_category}]
    /\ data = [u \in Users |-> NoData]
    /\ expenses = {}
    /\ income = {}
    /\ budgets = {}
    /\ goals = {}
    /\ seq = [expenses |-> 0, income |-> 0, budgets |-> 0, goals |-> 0]
    /\ EXCHANGE_RATES = [USD |-> USD_FALLBACK, BYN |-> BYN_FALLBACK,
                         last_update |-> 0]
    /\ today = 0
    /\ now = 0
    /\ last = [user |-> 0, handler |-> "init", reply |-> "none"]
    /\ expenseRate = [id \in {} |-> 0]
    /\ incomeRate = [id \in {} |-> 0]
    /\ nStarts = 0
    /\ nFetches = 0

NextBudgetSteps ==
    \E u \in Users : \E text \in BudgetStepTexts :
        \/ process_budget_category(u, text)
        \/ cancel_budget(u, text)
        \/ process_budget_amount(u, text)

SpecBudgetSteps == InitBudgetSteps /\ [][NextBudgetSteps]_vars

(***************************************************************************)
(* Vocabulary of the properties.                                           *)
(***************************************************************************)
AmountSteps ==
    { AddExpense_waiting_for_amount, AddIncome_waiting_for_amount,
      SetBudget_waiting_for_amount, CreateGoal_waiting_for_amount,
      Convert_waiting_for_amount, EditExpense_waiting_for_new_amount,
      EditIncome_waiting_for_new_amount }

ExpenseCategorySteps ==
    { AddExpense_waiting_for_category, SetBudget_waiting_for_category,
      EditExpense_waiting_for_new_category }

IncomeCategorySteps ==
    { AddIncome_waiting_for_category, EditIncome_waiting_for_new_category }

\* the first step of each wizard
FirstSteps ==
    { AddExpense_waiting_for_amount, AddIncome_waiting_for_amount,
      SetBudget_waiting_for_category, CreateGoal_waiting_for_name,
      Convert_waiting_for_amount, EditExpense_waiting_for_new_amount,
      EditIncome_waiting_for_new_amount }

\* the fields a wizard is started with: the edit wizards carry the record id
SeedFields(st) ==
    CASE st = EditExpense_waiting_for_new_amount -> {"expense_id"}
      [] st = EditIncome_waiting_for_new_amount -> {"income_id"}
      [] OTHER -> {}

\* the handlers that start a wizard, cancel one, store what one collected
StartHandlers ==
    { "cmd_set_budget", "cmd_create_goal", "cmd_add_expense", "cmd_add_income",
      "cmd_convert" }
StartCallbackHandlers == { "edit_expense_callback", "edit_income_callback" }
CancelHandlers ==
    { "cancel_budget", "cancel_expense", "cancel_income",
      "cancel_edit_expense", "cancel_edit_income" }
CommitHandlers ==
    { "process_budget_amount", "process_goal_amount",
      "process_expense_category", "process_income_category",
      "process_edit_expense_category", "process_edit_income_category" }

\* text does not pass the parser / the validator of step st
FailsStep(st, text) ==
    \/ st \in AmountSteps /\ AmountRaises(text)
    \/ st \in ExpenseCategorySteps /\ text \notin ValidExpenseCategories
    \/ st \in IncomeCategorySteps /\ text \notin ValidIncomeCategories

\* the texts that fail step st and reach neither a start handler nor a cancel
\* handler, tabulated over the FSM states
RejectedTexts ==
    [st \in FSMStates |->
        { text \in Texts :
            /\ FailsStep(st, text)
            /\ MessageTable[st][text] \notin StartHandlers \cup CancelHandlers }]

\* a step that is a wizard start of user u
Started(u) ==
    \/ \E text \in Texts :
          /\ MessageTable[state[u]][text] \in StartHandlers
          /\ OnMessage(u, text)
    \/ \E cb \in Callbacks :
          /\ CallbackTable[state[u]][cb] \in StartCallbackHandlers
          /\ OnCallback(u, cb)

\* a step that is the cancellation of user u's wizard
Cancelled(u) ==
    \E text \in Texts :
        /\ MessageTable[state[u]][text] \in CancelHandlers
        /\ OnMessage(u, text)

\* a step that handles one event of user u
EventOf(u) ==
    \/ \E text \in Texts : OnMessage(u, text)
    \/ \E cb \in Callbacks : OnCallback(u, cb)

OwnedBy(u, rows) == { r \in rows : r.user_id = u }

(***************************************************************************)
(* C1                                                                      *)
(***************************************************************************)
\* C1: at an amount step or a category step, a message that fails the step's
\* parser or validator (and is neither a wizard start nor the accepted
\* cancellation) leaves the sender's FSM state and data as they were and
\* writes to none of expenses, income, budgets, goals.  (Stated from the
\* effect: a step that changes any of these handles no such message.)
C1_RejectedInputKeepsSession ==
    [][\A u \in Users :
          ~ ( /\ state'[u] = state[u]
              /\ data'[u] = data[u]
              /\ UNCHANGED <<expenses, income, budgets, goals>> )
          => \A text \in RejectedTexts[state[u]] : ~ OnMessage(u, text)]_vars

\* an invalid category has just been rejected at the category step of
\* add-expense, the collected amount still in the data
C1_Witness ==
    \E u \in Users :
        /\ last = [user |-> u, handler |-> "process_expense_category",
                   reply |-> "invalid"]
        /\ state[u] = AddExpense_waiting_for_category
        /\ data[u] = [amount |-> 125050]
        /\ expenses = {}

(***************************************************************************)
(* C2                                                                      *)
(***************************************************************************)
\* C2: at every step of every wizard at which the session is live, the
\* cancellation text clears the sender's session (FSM state and data).
C2_CancelClearsAtEveryStep ==
    [][\A u \in Users :
          (state[u] # None /\ OnMessage(u, T_CANCEL))
          => (state'[u] = None /\ data'[u] = NoData)]_vars

(***************************************************************************)
(* C3                                                                      *)
(***************************************************************************)
\* C3: an accepted cancellation leaves the sender with no FSM state and no
\* data and changes no table; a user without FSM state holds no data, and the
\* next wizard start of such a user is at the wizard's first step with no
\* data but the wizard's seed.
C3_CancelLeavesNothing ==
    [][\A u \in Users :
          /\ Cancelled(u)
             => /\ state'[u] = None
                /\ data'[u] = NoData
                /\ UNCHANGED <<expenses, income, budgets, goals>>
          /\ state'[u] = None => data'[u] = NoData
          /\ (state[u] = None /\ Started(u))
             => /\ state'[u] \in FirstSteps
                /\ DOMAIN data'[u] = SeedFields(state'[u])]_vars

\* add-expense has just been cancelled at its category step
C3_Witness ==
    \E u \in Users :
        /\ last = [user |-> u, handler |-> "cancel_expense",
                   reply |-> "cancelled"]
        /\ state[u] = None
        /\ data[u] = NoData
        /\ nStarts >= 1

(***************************************************************************)
(* C4                                                                      *)
(***************************************************************************)
\* C4: a wizard start of a user who has a live session replaces it as a
\* whole: afterwards the user is at the new wizard's first step and the data
\* holds exactly the new wizard's seed fields.
C4_StartReplacesSession ==
    [][\A u \in Users :
          (state[u] # None /\ Started(u))
          => /\ state'[u] \in FirstSteps
             /\ DOMAIN data'[u] = SeedFields(state'[u])]_vars

(***************************************************************************)
(* C5                                                                      *)
(***************************************************************************)
\* C5: a message that makes a wizard write inserts exactly one row or
\* rewrites exactly one row, and leaves the sender with no FSM state and no
\* data, so that the same text delivered again reaches no handler that
\* writes.
C5_AtMostOnceCommit ==
    [][\A u \in Users : \A text \in Texts :
          ( /\ <<expenses, income, budgets, goals>>' #
                  <<expenses, income, budgets, goals>>
            /\ OnMessage(u, text) )
          => /\ Cardinality(expenses' \ expenses)
                  + Cardinality(income' \ income)
                  + Cardinality(budgets' \ budgets)
                  + Cardinality(goals' \ goals) = 1
             /\ Cardinality(expenses \ expenses')
                  + Cardinality(income \ income')
                  + Cardinality(budgets \ budgets')
                  + Cardinality(goals \ goals') <= 1
             /\ state'[u] = None
             /\ data'[u] = NoData
             /\ MessageTable[state'[u]][text] \notin CommitHandlers]_vars

\* add-expense has just stored its one row and cleared the session
C5_Witness ==
    \E u \in Users :
        /\ last = [user |-> u, handler |-> "process_expense_category",
                   reply |-> "done"]
        /\ state[u] = None
        /\ Cardinality(OwnedBy(u, expenses)) = 1
        /\ seq.expenses = 1

(***************************************************************************)
(* C6                                                                      *)
(***************************************************************************)
\* C6: the trigger of the set-budget wizard, "/setbudget", sent by a user
\* with no session puts that user at the category step of set-budget.
C6_SetBudgetStartsByTrigger ==
    [][\A u \in Users :
          (state[u] = None /\ OnMessage(u, T_CMD_SETBUDGET))
          => state'[u] = SetBudget_waiting_for_category]_vars

(***************************************************************************)
(* C7                                                                      *)
(***************************************************************************)
\* the rows matched by WHERE id = ? AND user_id = ?
Matching(rows, id, u) == { r \in rows : r.id = id /\ r.user_id = u }

\* an update of (id, u) that took rows to rowsAfter and returned `returned`
ScopedUpdate(rows, rowsAfter, id, u, amount_rub, returned) ==
    LET hit == Matching(rows, id, u)
    IN  IF hit = {}
        THEN returned = "False" /\ rowsAfter = rows
        ELSE /\ returned = "True"
             /\ Cardinality(hit) = 1
             /\ rows \ hit \subseteq rowsAfter
             /\ \E r \in rowsAfter :
                   /\ rowsAfter = (rows \ hit) \cup {r}
                   /\ r.id = id /\ r.user_id = u /\ r.amount_rub = amount_rub
                   /\ \A old \in hit : r.date = old.date

\* a delete of (id, u) that took rows to rowsAfter and returned `returned`
ScopedDelete(rows, rowsAfter, id, u, returned) ==
    LET hit == Matching(rows, id, u)
    IN  IF hit = {}
        THEN returned = "False" /\ rowsAfter = rows
        ELSE /\ returned = "True"
             /\ Cardinality(hit) = 1
             /\ rowsAfter = rows \ hit

\* C7: update_expense / update_income / delete_expense / delete_income called
\* with an id and a user that no row of the table matches return False and
\* leave both tables as they were; called with a matching pair they return
\* True, rewrite or remove exactly that row, and change no other row.
C7_OwnerScopedEditDelete ==
    [][\A id \in Ids : \A u \in Users :
          /\ \A a \in UpdateAmounts :
                /\ CallUpdateExpense(id, u, a)
                   => /\ ScopedUpdate(expenses, expenses', id, u, a, last'.reply)
                      /\ income' = income
                /\ CallUpdateIncome(id, u, a)
                   => /\ ScopedUpdate(income, income', id, u, a, last'.reply)
                      /\ expenses' = expenses
          /\ CallDeleteExpense(id, u)
             => /\ ScopedDelete(expenses, expenses', id, u, last'.reply)
                /\ income' = income
          /\ CallDeleteIncome(id, u)
             => /\ ScopedDelete(income, income', id, u, last'.reply)
                /\ expenses' = expenses]_vars

\* update_expense has just returned False to a user while every id of the
\* table is held by a row of another user
C7_Witness ==
    /\ last.handler = "update_expense"
    /\ last.reply = "False"
    /\ { r.id : r \in expenses } = Ids
    /\ \A r \in expenses : r.user_id # last.user

(***************************************************************************)
(* C8                                                                      *)
(***************************************************************************)
\* C8: a step that handles an event of user a leaves every other user's FSM
\* state and data and every other user's rows of expenses, income, budgets
\* and goals as they were, and every row it adds is owned by a.  (Stated
\* from the effect: a step that does otherwise handles no event of a.)
C8_OwnersIsolated ==
    [][\A a \in Users :
          ~ ( /\ \A b \in Users \ {a} :
                    /\ state'[b] = state[b]
                    /\ data'[b] = data[b]
                    /\ OwnedBy(b, expenses') = OwnedBy(b, expenses)
                    /\ OwnedBy(b, income') = OwnedBy(b, income)
                    /\ OwnedBy(b, budgets') = OwnedBy(b, budgets)
                    /\ OwnedBy(b, goals') = OwnedBy(b, goals)
              /\ \A r \in (expenses' \ expenses) \cup (income' \ income)
                          \cup (budgets' \ budgets) \cup (goals' \ goals) :
                    r.user_id = a )
          => ~ EventOf(a)]_vars

\* a user has just pressed a delete button while every expense id is held by
\* a row of another user: the press found nothing to delete
C8_Witness ==
    /\ last.handler = "delete_expense_callback"
    /\ last.reply = "not_found"
    /\ { r.id : r \in expenses } = Ids
    /\ \A r \in expenses : r.user_id # last.user

(***************************************************************************)
(* C9                                                                      *)
(***************************************************************************)
\* every stored row's amount_usd is its amount_rub divided by the USD rate in
\* force at the row's last write, rounded to hundredths
StoredAtWriteRate ==
    /\ \A r \in expenses :
          r.amount_usd = RoundDiv(r.amount_rub, expenseRate[r.id])
    /\ \A r \in income :
          r.amount_usd = RoundDiv(r.amount_rub, incomeRate[r.id])

\* C9: in every reachable state each expense and income row has amount_usd =
\* round(amount_rub / r, 2) for r the USD rate of EXCHANGE_RATES at the row's
\* last insert or update, and a step that changes EXCHANGE_RATES changes no
\* stored row.
C9_SecondaryAtWriteRate ==
    /\ []StoredAtWriteRate
    /\ [][EXCHANGE_RATES' # EXCHANGE_RATES
          => UNCHANGED <<expenses, income>>]_vars

\* an expense row written at the fallback rate is still stored after a
\* refresh has replaced the rate
C9_Witness ==
    /\ EXCHANGE_RATES.USD # USD_FALLBACK
    /\ \E r \in expenses :
          /\ expenseRate[r.id] = USD_FALLBACK
          /\ r.amount_usd # RoundDiv(r.amount_rub, EXCHANGE_RATES.USD)

(***************************************************************************)
(* C10                                                                     *)
(***************************************************************************)
\* C10: user 1 at the amount step of add-expense sends "1 250,50": the data
\* holds amount 1250.50; user 1, holding that amount, no expense row and USD
\* at 77.52, sends the category "(cart) Produkty": user 1 has exactly one
\* expense row, of 1250.50 and 16.13, and get_total_expenses(1, 1) returns
\* (1250.50, 16.13).
C10_EndToEndAddExpense ==
    [][/\ (state[1] = AddExpense_waiting_for_amount /\ OnMessage(1, T_1250_50))
          => /\ state'[1] = AddExpense_waiting_for_category
             /\ data'[1].amount = 125050
       /\ ( /\ state[1] = AddExpense_waiting_for_category
            /\ data[1].amount = 125050
            /\ OwnedBy(1, expenses) = {}
            /\ EXCHANGE_RATES.USD = USD_FALLBACK
            /\ OnMessage(1, T_PRODUKTY) )
          => /\ Cardinality(OwnedBy(1, expenses')) = 1
             /\ \A r \in OwnedBy(1, expenses') :
                   /\ r.amount_rub = 125050
                   /\ r.amount_usd = 1613
                   /\ r.category = T_PRODUKTY
             /\ get_total_expenses(1, 1)' = <<125050, 1613>>]_vars

\* the row of the scenario has just been stored
C10_Witness ==
    /\ last = [user |-> 1, handler |-> "process_expense_category",
               reply |-> "done"]
    /\ EXCHANGE_RATES.USD = USD_FALLBACK
    /\ \E r \in expenses :
          /\ OwnedBy(1, expenses) = {r}
          /\ r.amount_rub = 125050
          /\ r.amount_usd = 1613
          /\ r.category = T_PRODUKTY

(***************************************************************************)
(* Totals over a window of days.                                           *)
(***************************************************************************)
\* the rows of one owner dated in [today - (days - 1), today]
InWindow(rows, user_id, days) ==
    { r \in rows : /\ r.user_id = user_id
                   /\ r.date \in (today - (days - 1))..today }

WindowSums(rows, user_id, days) ==
    << Sum(InWindow(rows, user_id, days), "amount_rub"),
       Sum(InWindow(rows, user_id, days), "amount_usd") >>

\* what the last call of a windowed total returned is the pair of sums over
\* the caller's rows of that kind inside the window, (0, 0) for an empty one
WindowAnswered ==
    /\ last.handler = "get_total_expenses" =>
          /\ last.reply.value =
                WindowSums(expenses, last.user, last.reply.args[1])
          /\ InWindow(expenses, last.user, last.reply.args[1]) = {} =>
                last.reply.value = << 0, 0 >>
    /\ last.handler = "get_total_income" =>
          /\ last.reply.value =
                WindowSums(income, last.user, last.reply.args[1])
          /\ InWindow(income, last.user, last.reply.args[1]) = {} =>
                last.reply.value = << 0, 0 >>

\* an expense just recorded raises the owner's total of today by its amount
RecordedCountsToday ==
    \A u \in Users :
        (expenses' # expenses /\ last'.user = u
                              /\ last'.handler = "add_expense_to_db") =>
            \E r \in expenses' \ expenses :
                /\ r.user_id = u
                /\ (get_total_expenses(u, 1))'[1] =
                       get_total_expenses(u, 1)[1] + r.amount_rub
                /\ (get_total_expenses(u, 1))'[2] =
                       get_total_expenses(u, 1)[2] + r.amount_usd

\* C11: get_total_expenses and get_total_income return the sums of amount_rub
\* and amount_usd over exactly the caller's rows of that kind dated in
\* [today - (days - 1), today], (0, 0) when there is none, and an expense
\* recorded today is counted in the total of days = 1 asked on the same day.
C11_WindowTotals ==
    []WindowAnswered /\ [][RecordedCountsToday]_vars

\* the total of today was asked by an owner who has an expense of an earlier
\* day and one of today, and only the one of today was counted
C11_Witness ==
    /\ last.handler = "get_total_expenses"
    /\ last.reply.args = << 1 >>
    /\ \E r \in OwnedBy(last.user, expenses) : r.date < today
    /\ \E r \in OwnedBy(last.user, expenses) :
          /\ r.date = today
          /\ last.reply.value = << r.amount_rub, r.amount_usd >>

(***************************************************************************)
(* The balance.                                                            *)
(***************************************************************************)
\* C12: what get_balance returns to an owner, after any additions, edits and
\* deletions and on any day, is: the sums of amount_rub and amount_usd over
\* all of the owner's income rows, the same over all of the owner's expense
\* rows, and the differences income - expense in both currencies; six zeros
\* for an owner without rows.
C12_BalanceOverAllTime ==
    last.handler = "get_balance" =>
        LET inc == OwnedBy(last.user, income)
            exp == OwnedBy(last.user, expenses)
            v == last.reply.value
        IN  /\ v[3] = Sum(inc, "amount_rub")
            /\ v[4] = Sum(inc, "amount_usd")
            /\ v[5] = Sum(exp, "amount_rub")
            /\ v[6] = Sum(exp, "amount_usd")
            /\ v[1] = v[3] - v[5]
            /\ v[2] = v[4] - v[6]
            /\ (inc = {} /\ exp = {}) => v = << 0, 0, 0, 0, 0, 0 >>

\* the balance was asked by an owner with an income row and with an expense
\* row of an earlier day that was edited, after an expense row was deleted
C12_Witness ==
    /\ last.handler = "get_balance"
    /\ OwnedBy(last.user, income) # {}
    /\ \E r \in OwnedBy(last.user, expenses) :
          /\ r.date < today
          /\ r.amount_rub \in UpdateAmounts
    /\ Cardinality(expenses) < seq.expenses
    /\ last.reply.value[1] # 0

(***************************************************************************)
(* Budgets.                                                                *)
(***************************************************************************)
\* the budgets of an owner and a category in the month of today
CurrentBudgets(user_id, category) ==
    { b \in budgets : /\ b.user_id = user_id
                      /\ b.category = category
                      /\ b.month = MonthOf(today)
                      /\ b.year = YearOf(today) }

\* the owner's expenses of a category dated in the month of today
SpentThisMonth(user_id, category) ==
    Sum({ r \in expenses : /\ r.user_id = user_id
                           /\ r.category = category
                           /\ MonthOf(r.date) = MonthOf(today)
                           /\ YearOf(r.date) = YearOf(today) },
        "amount_rub")

\* C13: check_budget_exceeded returns (False, 0, 0) when the owner has no
\* budget for the category in the current month; otherwise it returns
\* (alert, spent, limit) with limit the stored limit, spent the sum of
\* amount_rub over the owner's expenses of the category dated in the current
\* month as the table stands at the call, and alert true exactly when
\* spent / limit >= 0.80.
C13_ThresholdOfCurrentMonth ==
    last.handler = "check_budget_exceeded" =>
        LET category == last.reply.args[1]
            v == last.reply.value
            spent == SpentThisMonth(last.user, category)
        IN  IF CurrentBudgets(last.user, category) = {}
            THEN v = << FALSE, 0, 0 >>
            ELSE \E b \in CurrentBudgets(last.user, category) :
                    /\ v[3] = b.limit_rub
                    /\ v[2] = spent
                    /\ v[1] = (5 * spent >= 4 * b.limit_rub)

\* a limit of 1000.00 and three expenses of 300.00 in the category this
\* month: the call returned (True, 900.00, 1000.00)
C13_Witness ==
    /\ last.handler = "check_budget_exceeded"
    /\ last.reply.value = << TRUE, 90000, 100000 >>
    /\ Cardinality(OwnedBy(last.user, expenses)) = 3

BudgetKey(b) == << b.user_id, b.category, b.month, b.year >>

\* no two budget rows have the same (user_id, category, month, year)
UniqueBudgets ==
    \A b, c \in budgets : BudgetKey(b) = BudgetKey(c) => b = c

\* a step that changes the budgets is a set_budget: afterwards the rows of
\* its key hold the limit passed, the rows of the other keys are as before
SetBudgetReplaces ==
    budgets' # budgets =>
        /\ last'.handler = "set_budget"
        /\ LET key == << last'.user, last'.reply.args[1],
                         MonthOf(today), YearOf(today) >>
           IN  /\ { b.limit_rub : b \in { c \in budgets' :
                                             BudgetKey(c) = key } } =
                      { last'.reply.args[2] }
               /\ { b \in budgets' : BudgetKey(b) # key } =
                      { b \in budgets : BudgetKey(b) # key }

\* C14: there is at most one budget per (user_id, category, month, year);
\* set_budget for a key that has a budget replaces its limit by the value
\* passed and leaves the budgets of every other key as they were.
C14_OneBudgetPerKey ==
    []UniqueBudgets /\ [][SetBudgetReplaces]_vars

\* set_budget has just replaced the limit of a key by 1000.00, beside a budget
\* of another key
C14_Witness ==
    /\ last.handler = "set_budget"
    /\ last.reply.args[2] = 100000
    /\ seq.budgets = 3
    /\ Cardinality(budgets) = 2
    /\ \E b \in budgets : b.id = 1
    /\ \E b \in budgets : b.id = 3 /\ b.limit_rub = 100000

(***************************************************************************)
(* The rate snapshot.                                                      *)
(***************************************************************************)
\* a run of fetch_exchange_rates that does not return True leaves the
\* snapshot as it was
FailedRefreshKeepsSnapshot ==
    (nFetches' # nFetches /\ last'.reply # "True") =>
        EXCHANGE_RATES' = EXCHANGE_RATES

\* a run returns True only on a document that has both keys: both rates are
\* then those published at this fetch
SuccessHasBothKeys ==
    (nFetches' # nFetches /\ last'.reply = "True") =>
        /\ EXCHANGE_RATES'.USD = PublishedUSD(nFetches')
        /\ EXCHANGE_RATES'.BYN = PublishedBYN(nFetches')

\* last_update is written only by a run that returns True
TimestampOnlyOnSuccess ==
    EXCHANGE_RATES'.last_update # EXCHANGE_RATES.last_update =>
        (nFetches' # nFetches /\ last'.reply = "True")

\* C15: a refresh that fails for any reason (an exception, a response other
\* than 200, a malformed document, a missing USD or BYN key) reports failure
\* and leaves the USD rate, the BYN rate and last_update as they were; so
\* last_update is set only if some refresh has reported success.
C15_FailedRefreshLeavesSnapshot ==
    [][ /\ FailedRefreshKeepsSnapshot
        /\ SuccessHasBothKeys
        /\ TimestampOnlyOnSuccess ]_vars

\* the two rates are the startup values, or both published at one fetch
FromOneFetch(usd, byn) ==
    \/ usd = USD_FALLBACK /\ byn = BYN_FALLBACK
    \/ \E n \in 1..MaxRateFetches :
          usd = PublishedUSD(n) /\ byn = PublishedBYN(n)

\* C16: the USD rate and the BYN rate a reader sees come from the same fetch
\* or are both the startup values, never one from an older fetch and one
\* from a newer fetch.
C16_SnapshotFromOneFetch ==
    /\ FromOneFetch(EXCHANGE_RATES.USD, EXCHANGE_RATES.BYN)
    /\ last.handler = "cmd_rates" =>
          FromOneFetch(last.reply.USD, last.reply.BYN)

(***************************************************************************)
(* Conversion there and back.                                              *)
(***************************************************************************)
\* |a - b| is at most t units in the last place of b
WithinUlps(a, b, t) ==
    \/ a = b
    \/ /\ a[1] # 0 /\ b[1] # 0
       /\ a[2] - b[2] \in -2..2
       /\ LET e == IF a[2] < b[2] THEN a[2] ELSE b[2]
              x == a[1] * Pow2(a[2] - e)
              y == b[1] * Pow2(b[2] - e)
              d == IF x < y THEN y - x ELSE x - y
          IN  d <= t * Pow2(b[2] - e)

\* the rounding tolerance: four roundings, each of at most one unit in the
\* last place of the amount
WithinTolerance(a, b) == WithinUlps(a, b, 4)

\* C17 as stated: convert(convert(x, A, B), B, A) equals x within rounding
\* tolerance, and convert(x, A, A) equals x.
C17_RoundTripAndIdentity ==
    last.handler = "convert_currency" =>
        /\ WithinTolerance(last.reply.back, last.reply.amount)
        /\ last.reply.from_cur = last.reply.to_cur =>
              last.reply.result = last.reply.amount

\* C17: on a snapshot with positive rates and for known codes A and B,
\* convert(convert(x, A, B), B, A) equals x within rounding tolerance;
\* convert(x, A, A) equals x within the same tolerance, and exactly when A
\* is RUB.
C17_RoundTripWithinTolerance ==
    last.handler = "convert_currency" =>
        /\ WithinTolerance(last.reply.back, last.reply.amount)
        /\ last.reply.from_cur = last.reply.to_cur =>
              WithinTolerance(last.reply.result, last.reply.amount)
        /\ (last.reply.from_cur = "RUB" /\ last.reply.to_cur = "RUB") =>
              last.reply.result = last.reply.amount

\* an amount was converted from USD to BYN and back, and came back changed,
\* within the tolerance
C17_Witness ==
    /\ last.handler = "convert_currency"
    /\ last.reply.from_cur = "USD"
    /\ last.reply.to_cur = "BYN"
    /\ last.reply.back # last.reply.amount
    /\ WithinTolerance(last.reply.back, last.reply.amount)

(***************************************************************************)
(* Categories.                                                             *)
(***************************************************************************)
\* every stored category is a string of the enumeration of its table
StoredCategoriesValid ==
    /\ \A r \in expenses : r.category \in ValidExpenseCategories
    /\ \A r \in income : r.category \in ValidIncomeCategories

ExpenseCategoryHandlers ==
    { "process_expense_category", "process_edit_expense_category" }
IncomeCategoryHandlers ==
    { "process_income_category", "process_edit_income_category" }

\* a category handler goes past its validation only on a text that is a
\* string of the enumeration of its own kind, and answers "invalid", leaving
\* the tables and the session alone, only on a text that is none
CategoryStepExact ==
    \A u \in Users :
        /\ (last'.user = u /\ last'.handler \in ExpenseCategoryHandlers) =>
              IF last'.reply = "invalid"
              THEN /\ UNCHANGED <<expenses, income, state, data>>
                   /\ \E text \in Texts \ ValidExpenseCategories :
                         OnMessage(u, text)
              ELSE \E text \in Texts \cap ValidExpenseCategories :
                         OnMessage(u, text)
        /\ (last'.user = u /\ last'.handler \in IncomeCategoryHandlers) =>
              IF last'.reply = "invalid"
              THEN /\ UNCHANGED <<expenses, income, state, data>>
                   /\ \E text \in Texts \ ValidIncomeCategories :
                         OnMessage(u, text)
              ELSE \E text \in Texts \cap ValidIncomeCategories :
                         OnMessage(u, text)

\* C18: the category of every stored expense is a string of the expense
\* enumeration and the category of every stored income is a string of the
\* income enumeration; the category steps of the add and edit wizards accept
\* a text only when it equals a string of the enumeration of their own kind,
\* and reject a string of the other kind and free text.
C18_CategoriesOfOwnKind ==
    []StoredCategoriesValid /\ [][CategoryStepExact]_vars

\* with an expense stored under an expense category, the category step of
\* add-income has just rejected a text
C18_Witness ==
    \E u \in Users :
        /\ last = [user |-> u, handler |-> "process_income_category",
                   reply |-> "invalid"]
        /\ state[u] = AddIncome_waiting_for_category
        /\ \E r \in expenses : r.category = T_TAKSI

(***************************************************************************)
(* The currency choice of the converter.                                   *)
(***************************************************************************)
CurrencySteps ==
    { Convert_waiting_for_from_currency, Convert_waiting_for_to_currency }

\* the button presses whose second field names none of RUB, USD, BYN
UnknownCurrencyPresses == { cb \in Callbacks : cb[2] \notin Currencies }

\* C19: at the two currency steps of the converter a button press that names
\* no known currency (a delete or edit button of a history message) is a
\* validation error: the sender's FSM state and data stay as they were and
\* no result is produced.  (Stated from the effect: a step that changes the
\* state or the data of a user at a currency step handles no such press.)
C19_UnknownCurrencyRejected ==
    [][\A u \in Users :
          ( /\ state[u] \in CurrencySteps
            /\ ~ (state'[u] = state[u] /\ data'[u] = data[u]) )
          => \A cb \in UnknownCurrencyPresses : ~ OnCallback(u, cb)]_vars

(***************************************************************************)
(* Reminders.                                                              *)
(***************************************************************************)
\* the owners who have written a record
Writers ==
    { u \in Users : OwnedBy(u, expenses) \cup OwnedBy(u, income) # {} }

\* C20: a reminder scheduler runs in the background: once per day, when the
\* fixed time of the day passes, it emits one notification request for each
\* owner who has written a record.  (A day cannot pass without the fixed
\* time passing, so the step to the next day carries the batch.)
C20_DailyReminderBatch ==
    [][(today' # today /\ Writers # {}) =>
          /\ last'.handler = "reminder"
          /\ last'.reply = Writers]_vars

(***************************************************************************)
(* C21                                                                     *)
(***************************************************************************)
\* the answer of a history query lists, of the owner's rows of that table,
\* the min(limit, count) written last, each written after the one that
\* follows it (ids are AUTOINCREMENT: the row written later has the larger id)
NewestFirst(rows, user_id, limit, results) ==
    LET owned == OwnedBy(user_id, rows)
        n == Len(results)
        listed == { results[i][1] : i \in 1..n }
    IN  /\ n <= limit
        /\ n = (IF limit < Cardinality(owned) THEN limit
                ELSE Cardinality(owned))
        /\ \A i \in 1..n : \E r \in owned : results[i] = Selected(r)
        /\ \A i, j \in 1..n : i < j => results[i][1] > results[j][1]
        /\ \A r \in owned : r.id \notin listed =>
              \A id \in listed : id > r.id

\* C21: get_recent_expenses and get_recent_income return at most limit rows,
\* all of the owner and of the table asked for, the most recently written
\* ones, newest first, also when two rows were written in one clock second.
C21_ListRecentNewestFirst ==
    /\ last.handler = "get_recent_expenses" =>
          NewestFirst(expenses, last.user, last.reply.args[1],
                      last.reply.value)
    /\ last.handler = "get_recent_income" =>
          NewestFirst(income, last.user, last.reply.args[1],
                      last.reply.value)

(***************************************************************************)
(* C22                                                                     *)
(***************************************************************************)
\* the goal list shows every goal of the owner with the ratio of the
\* owner's balance to the goal's target, whatever its size and sign
ProgressIsBalanceOverTarget ==
    last.handler = "cmd_goals" =>
        LET shown == last.reply.value
            balance_rub == get_balance(last.user)[1]
        IN  /\ Len(shown) = Cardinality(OwnedBy(last.user, goals))
            /\ \A i \in 1..Len(shown) :
                  /\ shown[i].balance_rub = balance_rub
                  /\ shown[i].progress =
                        << balance_rub * 100, shown[i].target_rub >>

\* the progress indicator of every goal shown is 10 cells wide
BarOfTenCells ==
    last.handler = "cmd_goals" =>
        \A i \in 1..Len(last.reply.value) :
            Len(last.reply.value[i].progress_bar) = 10

\* C22: for every goal of an owner the progress shown is the owner's balance
\* divided by the goal's target, uncapped (above 100% and below 0 alike), and
\* the progress indicator is 10 cells wide for every value of the ratio.
C22_ProgressRatioFixedWidth ==
    ProgressIsBalanceOverTarget /\ BarOfTenCells

(***************************************************************************)
(* C23                                                                     *)
(***************************************************************************)
EditExpenseSteps ==
    { EditExpense_waiting_for_new_amount, EditExpense_waiting_for_new_category }

EditIncomeSteps ==
    { EditIncome_waiting_for_new_amount, EditIncome_waiting_for_new_category }

\* a user at a step of an edit wizard holds the id of the row to edit
EditSessionSeeded ==
    \A u \in Users :
        /\ state[u] \in EditExpenseSteps => "expense_id" \in DOMAIN data[u]
        /\ state[u] \in EditIncomeSteps => "income_id" \in DOMAIN data[u]

\* field k of user u's data is set or changed in this step
Retargeted(u, k) ==
    /\ k \in DOMAIN data'[u]
    /\ k \notin DOMAIN data[u] \/ data[u][k] # data'[u][k]

\* the id held in the session is set only by the owner's press of the edit
\* button of that kind, to the id of the button, at the wizard's first step
TargetSetByEditStart ==
    \A u \in Users :
        /\ Retargeted(u, "expense_id") =>
              /\ state'[u] = EditExpense_waiting_for_new_amount
              /\ \E cb \in Callbacks :
                    /\ cb[1] = "edit" /\ cb[2] = "exp"
                    /\ data'[u].expense_id = cb[3]
                    /\ OnCallback(u, cb)
        /\ Retargeted(u, "income_id") =>
              /\ state'[u] = EditIncome_waiting_for_new_amount
              /\ \E cb \in Callbacks :
                    /\ cb[1] = "edit" /\ cb[2] = "inc"
                    /\ data'[u].income_id = cb[3]
                    /\ OnCallback(u, cb)

\* rowsAfter is rows with the row of id (a row of user u) given amount_rub
\* and category, and nothing else changed but that row's amount_usd
EditedOnly(rows, rowsAfter, id, u, amount_rub, category) ==
    \E r \in rows :
        /\ r.id = id /\ r.user_id = u
        /\ rowsAfter = (rows \ {r}) \cup
              { [r EXCEPT !.amount_rub = amount_rub,
                          !.amount_usd = RoundDiv(amount_rub,
                                                  EXCHANGE_RATES.USD),
                          !.category = category] }

\* a category step of an edit wizard that changes a table changes the row
\* of the id held in the sender's session, and only that row
TerminalStepEditsTarget ==
    \A u \in Users :
        /\ ( /\ expenses' # expenses
             /\ state[u] = EditExpense_waiting_for_new_category
             /\ last'.user = u
             /\ last'.handler = "process_edit_expense_category" )
           => /\ income' = income
              /\ \E text \in ValidExpenseCategories :
                    EditedOnly(expenses, expenses', data[u].expense_id, u,
                               data[u].new_amount, text)
        /\ ( /\ income' # income
             /\ state[u] = EditIncome_waiting_for_new_category
             /\ last'.user = u
             /\ last'.handler = "process_edit_income_category" )
           => /\ expenses' = expenses
              /\ \E text \in ValidIncomeCategories :
                    EditedOnly(income, income', data[u].income_id, u,
                               data[u].new_amount, text)

\* C23: an edit wizard holds the target row's id from before its first step;
\* the id is the one given at the owner's most recent edit start of that kind
\* (no amount or category entered in between changes it), and the terminal
\* step applies the new amount and category to exactly that row of that table.
C23_EditTargetsSeededRecord ==
    /\ []EditSessionSeeded
    /\ [][TargetSetByEditStart /\ TerminalStepEditsTarget]_vars

\* user 1 has edited the second of two own expenses at the second edit start
\* of the run: row 2 carries the new amount and category, row 1 and the
\* income row are as inserted
C23_Witness ==
    /\ last = [user |-> 1, handler |-> "process_edit_expense_category",
               reply |-> "done"]
    /\ state[1] = None
    /\ nStarts = 2
    /\ \E r1, r2 \in expenses :
          /\ r1.id = 1 /\ r1.user_id = 1 /\ r1.amount_rub = Amount(T_300)
          /\ r1.category = T_PRODUKTY
          /\ r2.id = 2 /\ r2.user_id = 1 /\ r2.amount_rub = Amount(T_1250_50)
          /\ r2.category = T_TAKSI
    /\ \E r \in income : r.amount_rub = Amount(T_300)

(***************************************************************************)
(* C24                                                                     *)
(***************************************************************************)
\* user u's category step of an edit wizard runs on a valid category while
\* no row of u has the id held in the session
EditOfMissingRow(u) ==
    /\ last'.user = u
    /\ last'.reply # "invalid"
    /\ \/ /\ state[u] = EditExpense_waiting_for_new_category
          /\ last'.handler = "process_edit_expense_category"
          /\ Matching(expenses, data[u].expense_id, u) = {}
       \/ /\ state[u] = EditIncome_waiting_for_new_category
          /\ last'.handler = "process_edit_income_category"
          /\ Matching(income, data[u].income_id, u) = {}

\* the step writes to no table
NoRecordTouched ==
    /\ expenses' = expenses /\ income' = income
    /\ budgets' = budgets /\ goals' = goals /\ seq' = seq

\* C24: when the row an edit wizard targets has been deleted since the edit
\* start, the terminal step answers with the failure text, inserts and changes
\* no row, and leaves the owner with no FSM state and no data.
C24_EditOfDeletedRecordFails ==
    [][\A u \in Users :
          EditOfMissingRow(u) =>
              /\ last'.reply = "not_found"
              /\ NoRecordTouched
              /\ state'[u] = None
              /\ data'[u] = NoData]_vars

(***************************************************************************)
(* C25                                                                     *)
(***************************************************************************)
\* the handlers of the wizards' last steps
TerminalHandlers ==
    CommitHandlers \cup { "convert_to_currency" }

\* C25: a terminal step of a wizard, whether its operation succeeded or found
\* no row, leaves the sender with no FSM state and no data whatever becomes
\* of the reply: the session is cleared before the reply is handed over.
C25_SessionClearedBeforeReply ==
    [][\A u \in Users :
          ( /\ last'.user = u
            /\ last'.handler \in TerminalHandlers
            /\ last'.reply # "invalid" )
          => /\ state'[u] = None
             /\ data'[u] = NoData]_vars

(***************************************************************************)
(* C26                                                                     *)
(***************************************************************************)
\* C26: a step in which one of the reading handlers (rates, balance, the
\* statistics of today, week and month, the two histories, the goal list,
\* the budget list, the menus) answers leaves every user's FSM state and
\* data, the four tables and EXCHANGE_RATES as they were, whatever the FSM
\* state of the sender.
C26_QueriesChangeNothing ==
    [][last'.handler \in QueryHandlers =>
          UNCHANGED <<state, data, expenses, income, budgets, goals, seq,
                      EXCHANGE_RATES>>]_vars

\* user 1, at the category step of edit-expense with the id and the new
\* amount collected, has asked for today's statistics and got the expense
\* stored before; a budget is set and the rates have been refreshed
C26_Witness ==
    /\ last.handler = "cmd_today" /\ last.user = 1
    /\ last.reply.value = << 0, Amount(T_1250_50) >>
    /\ state[1] = EditExpense_waiting_for_new_category
    /\ DOMAIN data[1] = { "expense_id", "new_amount" }
    /\ budgets # {}
    /\ EXCHANGE_RATES.last_update # 0

(***************************************************************************)
(* C27                                                                     *)
(***************************************************************************)
\* check_budget_exceeded answers (False, 0, 0) when the owner has no budget
\* of the category set in the month of today, whatever was set in another
\* month; get_all_budgets lists the budgets set in the month of today only
StaleBudgetsUnseen ==
    /\ last.handler = "check_budget_exceeded" =>
          ( CurrentBudgets(last.user, last.reply.args[1]) = {}
            => last.reply.value = << FALSE, 0, 0 >> )
    /\ last.handler = "get_all_budgets" =>
          { last.reply.value[i] : i \in 1..Len(last.reply.value) } =
             { << b.category, b.limit_rub >> :
                 b \in { c \in budgets : /\ c.user_id = last.user
                                         /\ c.month = MonthOf(today)
                                         /\ c.year = YearOf(today) } }

\* no step removes a budget of another month, and a budget of this month
\* leaves the table only for a budget of the same key
BudgetsKept ==
    \A b \in budgets :
        /\ \E c \in budgets' : BudgetKey(c) = BudgetKey(b)
        /\ ( b.month # MonthOf(today) \/ b.year # YearOf(today) )
              => b \in budgets'

\* C27: a budget counts in the month and year it was set in: once the month
\* has changed, check_budget_exceeded for its owner and category returns
\* (False, 0, 0) and get_all_budgets does not list it, while its row stays
\* in the table.
C27_BudgetBoundToItsMonth ==
    []StaleBudgetsUnseen /\ [][BudgetsKept]_vars

\* after the month has changed, user 1's budget of the month before is still
\* stored, and check_budget_exceeded has just answered (False, 0, 0) for it
C27_Witness ==
    /\ last.handler = "check_budget_exceeded" /\ last.user = 1
    /\ last.reply.args = << T_PRODUKTY >>
    /\ last.reply.value = << FALSE, 0, 0 >>
    /\ \E b \in budgets : /\ b.user_id = 1 /\ b.category = T_PRODUKTY
                          /\ b.month # MonthOf(today)

(***************************************************************************)
(* C28                                                                     *)
(***************************************************************************)
\* there is always a later turn of the refresh loop
RefreshGoesOn == []<><<update_rates_periodically>>_vars

\* a turn of the loop that did not return True leaves the rates the users'
\* events read as they were
FailedTurnKeepsSnapshot ==
    (nFetches' # nFetches /\ last'.reply # "True") =>
        EXCHANGE_RATES' = EXCHANGE_RATES

\* C28: the refresh loop never stops: after every attempt, successful or
\* failed, another attempt follows, and after a failed attempt the users'
\* events are processed with the rates of the last successful one.
C28_RefreshNeverStops ==
    RefreshGoesOn /\ [][FailedTurnKeepsSnapshot]_vars

(***************************************************************************)
(* C29                                                                     *)
(***************************************************************************)
\* the filters of the two start handlers pass in every FSM state
StartFiltersPassEverywhere ==
    \A st \in FSMStates :
        /\ MessageFilter("cmd_add_expense", st, T_ADD_EXPENSE)
        /\ MessageFilter("cmd_add_income", st, T_ADD_INCOME)

\* at the amount step of add-income the text of the add-expense button
\* starts add-expense; at the amount step of add-expense the text of the
\* add-income button is answered as a malformed amount and nothing changes
SwitchIsAsymmetric ==
    \A u \in Users :
        /\ ( /\ state[u] = AddIncome_waiting_for_amount
             /\ OnMessage(u, T_ADD_EXPENSE) )
           => /\ state'[u] = AddExpense_waiting_for_amount
              /\ last' = [user |-> u, handler |-> "cmd_add_expense",
                          reply |-> "prompt"]
        /\ ( /\ state[u] = AddExpense_waiting_for_amount
             /\ OnMessage(u, T_ADD_INCOME) )
           => /\ last' = [user |-> u, handler |-> "process_expense_amount",
                          reply |-> "invalid"]
              /\ UNCHANGED <<state, data, db>>

\* C29: the first registered handler whose filters pass runs, and the start
\* handlers' filters pass in every FSM state; so with add-income at its
\* amount step "(+) Rashod" puts the sender at the amount step of
\* add-expense, while with add-expense at its amount step "(dollar) Dohod"
\* is rejected as a malformed amount and the sender stays at that step.
C29_AsymmetricWizardSwitch ==
    []StartFiltersPassEverywhere /\ [][SwitchIsAsymmetric]_vars

\* after two starts user 1 is at the amount step of add-expense by the start
\* handler, with nothing collected and nothing stored; and "(dollar) Dohod"
\* sent now goes to the amount handler of add-expense
C29_Witness ==
    /\ last = [user |-> 1, handler |-> "cmd_add_expense", reply |-> "prompt"]
    /\ state[1] = AddExpense_waiting_for_amount
    /\ data[1] = NoData
    /\ nStarts = 2
    /\ state[2] = None
    /\ expenses = {} /\ income = {}
    /\ MessageTable[state[1]][T_ADD_INCOME] = "process_expense_amount"
    /\ MessageTable[AddIncome_waiting_for_amount][T_ADD_EXPENSE] =
          "cmd_add_expense"

(***************************************************************************)
(* C30                                                                     *)
(***************************************************************************)
\* no user is at the deadline step, and no stored goal has a deadline
NoDeadlineAnywhere ==
    /\ \A u \in Users : state[u] # CreateGoal_waiting_for_deadline
    /\ \A g \in goals : g.deadline = None

\* a goal is stored by the amount step of create-goal: one row with the
\* sender, the name collected and the amount typed, and the sender's session
\* is cleared in the same step
GoalStoredAtAmountStep ==
    goals' # goals =>
        \E u \in Users :
            /\ state[u] = CreateGoal_waiting_for_amount
            /\ last' = [user |-> u, handler |-> "process_goal_amount",
                        reply |-> "done"]
            /\ state'[u] = None
            /\ data'[u] = NoData
            /\ goals \subseteq goals'
            /\ \E g \in goals' \ goals :
                  /\ goals' = goals \cup {g}
                  /\ g.user_id = u /\ g.name = data[u].name
                  /\ g.target_amount_rub > 0
                  /\ g.deadline = None

\* C30: create-goal never reaches its deadline step: a valid positive amount
\* at the amount step stores the goal and clears the session at once, so no
\* user is ever at CreateGoal.waiting_for_deadline and every stored goal has
\* no deadline.
C30_NoDeadlineStep ==
    []NoDeadlineAnywhere /\ [][GoalStoredAtAmountStep]_vars

\* user 1 has just stored a goal of 1250.50 from the amount step
C30_Witness ==
    /\ last = [user |-> 1, handler |-> "process_goal_amount",
               reply |-> "done"]
    /\ state[1] = None
    /\ data[1] = NoData
    /\ \E g \in goals : /\ g.user_id = 1
                        /\ g.target_amount_rub = Amount(T_1250_50)
                        /\ g.deadline = None

(***************************************************************************)
(* C31                                                                     *)
(***************************************************************************)
\* every amount kept in a table is above zero
StoredAmountsPositive ==
    /\ \A r \in expenses : r.amount_rub > 0
    /\ \A r \in income : r.amount_rub > 0
    /\ \A b \in budgets : b.limit_rub > 0
    /\ \A g \in goals : g.target_amount_rub > 0

\* every amount an amount step has put into a session is above zero
CollectedAmountsPositive ==
    \A u \in Users :
        /\ "amount" \in DOMAIN data[u] => data[u].amount > 0
        /\ "new_amount" \in DOMAIN data[u] => data[u].new_amount > 0

\* the amounts a statement has put into a table: those of the rows inserted
\* and of the rows whose amount it changed
AmountsWritten(rows, rowsAfter, field) ==
    { r[field] : r \in { x \in rowsAfter :
                           \A y \in rows : y.id # x.id \/ y[field] # x[field] } }

\* the amount is the one the sender's amount step accepted and kept in the
\* session under key, and handler h wrote it from the step after
WrittenFromSession(written, h, st, key) ==
    /\ last'.handler = h
    /\ state[last'.user] = st
    /\ key \in DOMAIN data[last'.user]
    /\ written = { data[last'.user][key] }

\* the amount is the one typed at the amount step itself: a text that is a
\* number above zero
WrittenFromText(written, h, st) ==
    /\ last'.handler = h
    /\ state[last'.user] = st
    /\ \E text \in Texts :
          /\ ~ FloatRaises(NormalizeAmountText(text))
          /\ Float(NormalizeAmountText(text)) > 0
          /\ MessageTable[st][text] = h
          /\ written = { Float(NormalizeAmountText(text)) }

\* every amount that enters a table comes through an amount step
WritesComeThroughAmountStep ==
    LET e == AmountsWritten(expenses, expenses', "amount_rub")
        i == AmountsWritten(income, income', "amount_rub")
        b == AmountsWritten(budgets, budgets', "limit_rub")
        g == AmountsWritten(goals, goals', "target_amount_rub")
    IN  /\ e # {} =>
              \/ WrittenFromSession(e, "process_expense_category",
                                    AddExpense_waiting_for_category, "amount")
              \/ WrittenFromSession(e, "process_edit_expense_category",
                                    EditExpense_waiting_for_new_category,
                                    "new_amount")
        /\ i # {} =>
              \/ WrittenFromSession(i, "process_income_category",
                                    AddIncome_waiting_for_category, "amount")
              \/ WrittenFromSession(i, "process_edit_income_category",
                                    EditIncome_waiting_for_new_category,
                                    "new_amount")
        /\ b # {} =>
              WrittenFromText(b, "process_budget_amount",
                              SetBudget_waiting_for_amount)
        /\ g # {} =>
              WrittenFromText(g, "process_goal_amount",
                              CreateGoal_waiting_for_amount)

\* C31: in every reachable state every stored expense and income has an
\* amount in roubles above zero, every stored budget a limit above zero and
\* every stored goal a target above zero: an amount enters a table only from
\* an amount step, which passes on nothing that is zero or below.
C31_StoredAmountsPositive ==
    /\ [](StoredAmountsPositive /\ CollectedAmountsPositive)
    /\ [][WritesComeThroughAmountStep]_vars

\* user 2 has stored a goal of 1250.50; user 1, asked for the amount of an
\* expense, has typed something the step refused and is still asked; "0" and
\* "-300" are numbers the step takes and refuses
C31_Witness ==
    /\ last = [user |-> 1, handler |-> "process_expense_amount",
               reply |-> "invalid"]
    /\ state[1] = AddExpense_waiting_for_amount
    /\ data[1] = NoData
    /\ expenses = {}
    /\ \E g \in goals : g.user_id = 2 /\ g.target_amount_rub = Amount(T_1250_50)
    /\ \A text \in {T_ZERO, T_MINUS_300} :
          /\ MessageTable[state[1]][text] = "process_expense_amount"
          /\ ~ FloatRaises(NormalizeAmountText(text))
          /\ Amount(text) <= 0
          /\ AmountRaises(text)

=============================================================================
